---- MODULE Spec2Model ----
(***************************************************************************)
(* JWT authentication gate (JWTAuthUser) of common-be-fastapi, with the    *)
(* token codec, the user resolver, the permission resolver and the store   *)
(* collections they read.                                                  *)
(*                                                                         *)
(* One session (one issued token, one identity record) lives in the store; *)
(* requests carrying that token, a forged copy, an empty cookie or no      *)
(* cookie are sent to gates of every configuration while the account       *)
(* status changes, records are soft-deleted and the clock advances.        *)
(*                                                                         *)
(* The pure functions of the repository (permission check, path cleaning,  *)
(* token codec) are also applied to inputs drawn from bounded sets, under  *)
(* the specification FnSpec.                                               *)
(*                                                                         *)
(* MwSpec is one request passing ExceptionHandlerMiddleware and            *)
(* RequestsTrackerMiddleware around a handler that returns or raises,      *)
(* with the background tasks the request leaves behind.                    *)
(*                                                                         *)
(* CacheSpec is a function decorated with async_cache, called              *)
(* concurrently by MaxCallers callers over two keys.                       *)
(***************************************************************************)
EXTENDS Integers, Sequences, FiniteSets, TLC

VARIABLES
    now,                    \* the clock (datetime.now / get_current_timestamp)
    access_tokens,          \* Collections.ACCESS_TOKENS
    request_tokens,         \* Collections.REQUEST_TOKENS
    users,                  \* Collections.USERS
    admins,                 \* Collections.ADMINS
    api_permissions,        \* Collections.API_PERMISSIONS
    app_roles_permissions,  \* Collections.APP_ROLES_PERMISSIONS
    request,                \* the starlette Request being served
    self,                   \* the JWTAuthUser instance of the route
    pc,                     \* position of JWTAuthUser.__call__
    token_data,             \* local of __call__: the decoded claims
    token,                  \* local of __call__: the raw cookie value
    existing_user,          \* local of __call__: the resolved record
    outcome,                \* what __call__ returned or raised
    steps,                  \* the steps __call__ has run, in order
    tasks,                  \* tasks created by asyncio.create_task, not yet run
    fn,                     \* FnSpec: the function applied and its arguments
    ret,                    \* FnSpec: what the function returned or raised
    mw_pc,                  \* MwSpec: position of the request in the middleware stack
    mw_request,             \* MwSpec: the request
    mw_result,              \* MwSpec: what call_next returned or raised to handle_exceptions
    mw_response,            \* MwSpec: the response ExceptionHandlerMiddleware.dispatch returns
    mw_calls,               \* MwSpec: how often the handler was invoked
    mw_tasks,               \* MwSpec: tasks created by asyncio.create_task, not yet run
    mw_finished,            \* MwSpec: the tasks that ended, with the exception that ended them
    mw_log,                 \* MwSpec: the lines written to the logger, in order
    tracked,                \* MwSpec: the records of Collections.REQUEST_TRACKER, in order
    callers,                \* CacheSpec: each call of inner: its position, key and result
    cache,                  \* CacheSpec: the dict cache of async_cache
    lock,                   \* CacheSpec: the asyncio.Lock of async_cache
    started,                \* CacheSpec: per key, how often async_fn was called
    raised                  \* CacheSpec: per key, how often async_fn raised

gate_vars == <<now, access_tokens, request_tokens, users, admins, api_permissions,
               app_roles_permissions, request, self, pc, token_data, token,
               existing_user, outcome, steps, tasks>>

fn_vars == <<fn, ret>>

mw_vars == <<mw_pc, mw_request, mw_result, mw_response, mw_calls, mw_tasks, mw_finished,
             mw_log, tracked>>

cache_vars == <<callers, cache, lock, started, raised>>

\* the variables JWTAuthUser and the store's writers leave alone
outside_gate == <<fn_vars, mw_vars, cache_vars>>

\* the variables the functions of FnSpec leave alone
outside_fn == <<gate_vars, mw_vars, cache_vars>>

\* the variables the middlewares and their tasks leave alone
outside_mw == <<gate_vars, fn_vars, cache_vars>>

\* the variables the calls of a function under async_cache leave alone
outside_cache == <<gate_vars, fn_vars, mw_vars>>

vars == <<gate_vars, fn_vars, mw_vars, cache_vars>>

store == <<access_tokens, request_tokens, users, admins, api_permissions,
           app_roles_permissions>>

locals == <<token_data, token, existing_user>>

----------------------------------------------------------------------------
(* Bounds *)

\* The clock runs over 0..MaxTime.
MaxTime == 2

\* At most MaxTasks last_active tasks are pending at once.
MaxTasks == 1

----------------------------------------------------------------------------
(* Enumerations and configuration *)

AccountStatus == {"ACTIVE", "INACTIVE", "RESTRICTED", "SIGN_UP"}

BEARER == "bearer"
RESET_PASSWORD == "reset_password"
REFRESH == "refresh"
SIGN_UP == "sign_up"

TokenType == {BEARER, RESET_PASSWORD, REFRESH, SIGN_UP}

CLIENT == "CLIENT"
TALENT == "TALENT"
SUPER_ADMIN == "SUPER_ADMIN"

Role == {CLIENT, TALENT, SUPER_ADMIN}

\* config.JWT_SECRET, and a key that is not the secret
JWT_SECRET == "secret"

OtherKey == "other"

\* expires_delta of create_jwt_token: timedelta(days=1), in days
DefaultExpiresDelta == 1

HTTP_401_UNAUTHORIZED == 401
HTTP_403_FORBIDDEN == 403
HTTP_422_UNPROCESSABLE_ENTITY == 422
HTTP_500_INTERNAL_SERVER_ERROR == 500

None == [none |-> TRUE]

----------------------------------------------------------------------------
(* Python values *)

\* dict.get(key): the value, or None when the key is missing
Get(d, k) == IF k \in DOMAIN d THEN d[k] ELSE None

\* d | e : the mapping d updated with the mapping e
Merge(d, e) == [k \in (DOMAIN d) \cup (DOMAIN e) |-> IF k \in DOMAIN e THEN e[k] ELSE d[k]]

\* A text value: the characters of a JWT (its signed claims and the key that
\* signed them), or none, with or without surrounding white space.
Text(claims, key, ws) == [claims |-> claims, key |-> key, ws |-> ws]

EmptyString == [claims |-> <<>>, key |-> "", ws |-> FALSE]

\* str.strip()
Strip(s) == [s EXCEPT !.ws = FALSE]

\* truthiness of an Optional[str]
Truthy(s) == s # None /\ s # EmptyString

HTTPException(status_code, detail) ==
    [kind |-> "HTTPException", status_code |-> status_code, detail |-> detail]

ExpiredSignatureError == [kind |-> "ExpiredSignatureError"]

JWTError == [kind |-> "JWTError"]

\* jose.exceptions.JWTClaimsError, a JWTError: a claim of the token is refused
JWTClaimsError == [kind |-> "JWTClaimsError"]

Raise(exc) == [kind |-> "raise", exc |-> exc, value |-> None]

Return(v) == [kind |-> "return", exc |-> None, value |-> v]

Running == [kind |-> "running", exc |-> None, value |-> None]

----------------------------------------------------------------------------
(* date_utils *)

\* get_current_timestamp: the clock in milliseconds
get_current_timestamp(t) == t * 1000

\* has_expired(expiry) at clock t
has_expired(expiry, t) == expiry <= get_current_timestamp(t)

----------------------------------------------------------------------------
(* TokenCodec: create_jwt_token / verify_jwt_token *)

\* the list of reserved claims without iat
ReservedClaims_without_iat == {"iss", "sub", "aud", "exp", "nbf", "jti"}

ReservedClaims == {"iss", "sub", "aud", "exp", "nbf", "iat", "jti"}

\* jwt.encode(claims, key): the token text carries the claims and is signed by key
jwt_encode(claims, key) == Text(claims, key, FALSE)

\* jwt.decode(text, key) at clock t: the signature is verified first, then the
\* claims in the order nbf, exp, aud; no audience is passed, so a token that
\* carries an aud claim is refused
jwt_decode(text, key, t) ==
    IF text.claims = <<>> \/ text.key # key THEN Raise(JWTError)
    ELSE IF "nbf" \in DOMAIN text.claims /\ text.claims["nbf"] > t THEN Raise(JWTClaimsError)
    ELSE IF "exp" \in DOMAIN text.claims /\ text.claims["exp"] < t THEN Raise(ExpiredSignatureError)
    ELSE IF "aud" \in DOMAIN text.claims THEN Raise(JWTClaimsError)
    ELSE Return(text.claims)

\* create_jwt_token(payload, expires_delta, token_type) at clock t:
\* <<token, exp_timestamp>>
create_jwt_token(payload, expires_delta, token_type, t) ==
    LET expire == t + expires_delta
        exp_timestamp == expire * 1000
        to_encode == Merge(payload, [token_type |-> token_type, iat |-> t, exp |-> expire])
    IN  <<jwt_encode(to_encode, JWT_SECRET), exp_timestamp>>

\* verify_jwt_token that removes the reserved claims whatever the flag says
verify_jwt_token_always_strips(tok, remove_reserved_claims, t) ==
    LET decoded == jwt_decode(tok, JWT_SECRET, t)
    IN  IF decoded.kind = "raise" THEN decoded
        ELSE Return([k \in (DOMAIN decoded.value) \ ReservedClaims |-> decoded.value[k]])

\* verify_jwt_token(token, remove_reserved_claims) at clock t
verify_jwt_token(tok, remove_reserved_claims, t) ==
    LET decoded == jwt_decode(tok, JWT_SECRET, t)
    IN  IF decoded.kind = "raise" THEN decoded
        ELSE IF remove_reserved_claims
             THEN Return([k \in (DOMAIN decoded.value) \ ReservedClaims |-> decoded.value[k]])
             ELSE decoded

----------------------------------------------------------------------------
(* UserResolver: get_current_user / get_current_admin *)

\* a query condition {field: value}: the document has the field with that value
FieldEq(doc, field, value) == field \in DOMAIN doc /\ doc[field] = value

\* the $match stage without its is_deleted condition
MatchTokenDocs_keeps_deleted(collection, user_data, tok) ==
    {d \in collection :
        /\ FieldEq(d, "user_id", user_data["user_id"])
        /\ FieldEq(d, "user_type", user_data["user_type"])
        /\ (FieldEq(d, "access_token", tok) \/ FieldEq(d, "token", tok))}

\* the $match stage on the token-storage collection
MatchTokenDocs(collection, user_data, tok) ==
    {d \in collection :
        /\ FieldEq(d, "user_id", user_data["user_id"])
        /\ FieldEq(d, "user_type", user_data["user_type"])
        /\ FieldEq(d, "is_deleted", FALSE)
        /\ (FieldEq(d, "access_token", tok) \/ FieldEq(d, "token", tok))}

\* $lookup into the identity collection, $unwind, $replaceRoot
LookupIdentity(matched, identities) ==
    {u \in identities : \E d \in matched :
        /\ u["_id"] = d["user_id"]
        /\ u["user_type"] = d["user_type"]
        /\ u["is_deleted"] = FALSE}

\* the token-storage collection get_current_user / get_current_admin read
TokenCollection(user_data) ==
    IF user_data["token_type"] = RESET_PASSWORD THEN request_tokens ELSE access_tokens

\* users[0] if users else {}
FirstOrEmpty(docs) == IF docs # {} THEN CHOOSE u \in docs : TRUE ELSE <<>>

get_current_user(user_data, tok) ==
    FirstOrEmpty(LookupIdentity(MatchTokenDocs(TokenCollection(user_data), user_data, tok), users))

get_current_admin(user_data, tok) ==
    FirstOrEmpty(LookupIdentity(MatchTokenDocs(TokenCollection(user_data), user_data, tok), admins))

----------------------------------------------------------------------------
(* PermissionResolver: _get_cleaned_url_path / check_permissions *)

RECURSIVE RemoveAll(_, _)
\* re.sub(re.escape(pat), '', s): every occurrence of pat, left to right
RemoveAll(s, pat) ==
    IF Len(pat) = 0 \/ Len(s) < Len(pat) THEN s
    ELSE IF SubSeq(s, 1, Len(pat)) = pat THEN RemoveAll(SubSeq(s, Len(pat) + 1, Len(s)), pat)
    ELSE <<s[1]>> \o RemoveAll(Tail(s), pat)

RECURSIVE CleanPath(_, _)
\* the loop of _get_cleaned_url_path over request.path_params.values()
CleanPath(url_path, param_values) ==
    IF param_values = <<>> THEN url_path
    ELSE CleanPath(RemoveAll(url_path, <<"/">> \o Head(param_values)), Tail(param_values))

get_cleaned_url_path(req) == CleanPath(req.path, req.path_params)

\* the aggregate of check_permissions: each matching row with permission_exists
PermissionsAvailable(endpoint, method, user) ==
    LET user_permissions ==
            {p["permission_id"] : p \in {q \in app_roles_permissions :
                \E i \in 1..Len(user["app_roles"]) : q["app_role_id"] = user["app_roles"][i]}}
    IN  {[endpoint |-> r["endpoint"], method |-> r["method"],
          permission_id |-> r["permission_id"],
          permission_exists |-> r["permission_id"] \in user_permissions] :
            r \in {q \in api_permissions : q["endpoint"] = endpoint /\ q["method"] = method}}

\* user.get('app_roles') is truthy
HasAppRoles(user) == "app_roles" \in DOMAIN user /\ user["app_roles"] # <<>>

\* the store queries check_permissions makes: none when it returns at once
PermissionQueries(endpoint, method, user) ==
    IF ~HasAppRoles(user) THEN <<>>
    ELSE <<[collection |-> "API_PERMISSIONS", endpoint |-> endpoint, method |-> method]>>

\* check_permissions that is content with one satisfied row: any() for all()
check_permissions_any_row(endpoint, method, user) ==
    IF ~HasAppRoles(user) THEN TRUE
    ELSE \E permission \in PermissionsAvailable(endpoint, method, user) :
            permission["permission_exists"]

\* check_permissions(endpoint, method, user): TRUE when it returns, FALSE when
\* it raises
check_permissions(endpoint, method, user) ==
    IF ~HasAppRoles(user) THEN TRUE
    ELSE \A permission \in PermissionsAvailable(endpoint, method, user) :
            permission["permission_exists"]

----------------------------------------------------------------------------
(* localization: the messages the gate raises, by the names of the source *)

EXCEPTION_TOKEN_INVALID == "EXCEPTION_TOKEN_INVALID"

EXCEPTION_ACCOUNT_INACTIVE == "EXCEPTION_ACCOUNT_INACTIVE"

EXCEPTION_ACCOUNT_RESTRICTED == "EXCEPTION_ACCOUNT_RESTRICTED"

EXCEPTION_FORBIDDEN_ACCESS == "EXCEPTION_FORBIDDEN_ACCESS"

EXCEPTION_PERMISSION_DOESNT_EXIST == "EXCEPTION_PERMISSION_DOESNT_EXIST"

----------------------------------------------------------------------------
(* ExceptionMiddleware: the status code handle_exceptions answers with *)

\* handle_exceptions without its two except clauses for jose errors
handle_exceptions_status_no_jwt_clauses(exc) ==
    CASE exc.kind = "RequestValidationError" -> HTTP_422_UNPROCESSABLE_ENTITY
      [] exc.kind = "ValueError" -> HTTP_422_UNPROCESSABLE_ENTITY
      [] exc.kind = "HTTPException" -> exc.status_code
      [] OTHER -> HTTP_500_INTERNAL_SERVER_ERROR

handle_exceptions_status(exc) ==
    CASE exc.kind = "RequestValidationError" -> HTTP_422_UNPROCESSABLE_ENTITY
      [] exc.kind = "ValueError" -> HTTP_422_UNPROCESSABLE_ENTITY
      [] exc.kind = "ExpiredSignatureError" -> HTTP_401_UNAUTHORIZED
      [] exc.kind = "JWTError" -> HTTP_401_UNAUTHORIZED
      [] exc.kind = "HTTPException" -> exc.status_code
      [] OTHER -> HTTP_500_INTERNAL_SERVER_ERROR

----------------------------------------------------------------------------
(* The inputs: sessions, requests and gates *)

\* the roles a session is issued for
SessionRoles == {CLIENT, SUPER_ADMIN}

\* app_roles of the session's identity record: none, a role that holds
\* permission 1, a role that holds no permission
AppRolesChoices == {<<>>, <<1>>, <<2>>}

\* access_levels of gates declared in route_dependencies:
\* check_client_or_super_admin and check_talent
AccessLevelSets == {{CLIENT, SUPER_ADMIN}, {TALENT}}


\* a parametrized route whose cleaned path has a permission row, and a
\* literal route without one
Endpoints ==
    {[path |-> <<"/", "u", "/", "4", "/", "e">>, path_params |-> << <<"4">> >>, method |-> "GET"],
     [path |-> <<"/", "p">>, path_params |-> <<>>, method |-> "GET"]}

\* the token texts the store holds
IssuedTokens ==
    {d["access_token"] : d \in {e \in access_tokens \cup request_tokens : "access_token" \in DOMAIN e}}
        \cup {d["token"] : d \in {e \in access_tokens \cup request_tokens : "token" \in DOMAIN e}}

\* the token types gates are declared for: the default of JWTAuthUser and the
\* types of the issued tokens
GateTokenTypes == {BEARER} \cup {t.claims["token_type"] : t \in IssuedTokens}

Gates == [access_levels : AccessLevelSets, token_type : GateTokenTypes]

\* the cookie jars a client sends: no cookie, an empty one, an issued token,
\* an issued token inside white space, an issued token signed by another key
CookieChoices ==
    {<<>>, [access_token |-> EmptyString]}
        \cup {[access_token |-> t] : t \in IssuedTokens}
        \cup {[access_token |-> [t EXCEPT !.ws = TRUE]] : t \in IssuedTokens}
        \cup {[access_token |-> [t EXCEPT !.key = OtherKey]] : t \in IssuedTokens}

\* the headers a client sends: none, or Authorization: Bearer <issued token>
HeaderChoices == {<<>>} \cup {[authorization |-> t] : t \in IssuedTokens}

\* what a client sends: any cookie jar without an Authorization header, or the
\* header with no usable cookie
Carriers ==
    {c \in [cookies : CookieChoices, headers : HeaderChoices] :
        c.headers = <<>> \/ c.cookies \in {<<>>, [access_token |-> EmptyString]}}

NoRequest == [cookies |-> <<>>, headers |-> <<>>, path |-> <<>>, path_params |-> <<>>, method |-> ""]

NoGate == [access_levels |-> {}, token_type |-> ""]

\* FnSpec has applied no function
NoCall == [op |-> "", args |-> <<>>]

FnAtRest == fn = NoCall /\ ret = None

\* no request in the middleware stack
MwAtRest ==
    /\ mw_pc = "idle"
    /\ mw_request = NoRequest
    /\ mw_result = Running
    /\ mw_response = None
    /\ mw_calls = 0
    /\ mw_tasks = {}
    /\ mw_finished = {}
    /\ mw_log = <<>>
    /\ tracked = <<>>

\* the concurrent calls of one function decorated with async_cache
MaxCallers == 3

Callers == 1 .. MaxCallers

\* the cache keys: (args, tuple(kwargs.items())) of two different calls
Keys == {"a", "b"}

\* a call of inner that has not begun
NotCalled == [pc |-> "idle", key |-> "", result |-> Running]

\* async_cache(async_fn) as the decorator leaves it: lock = asyncio.Lock(), cache = {}
CacheAtRest ==
    /\ callers = [c \in Callers |-> NotCalled]
    /\ cache = <<>>
    /\ lock = [locked |-> FALSE, waiters |-> <<>>]
    /\ started = [k \in Keys |-> 0]
    /\ raised = [k \in Keys |-> 0]

----------------------------------------------------------------------------
(* The state after a session was issued *)

Init ==
    \E role \in SessionRoles, token_type \in TokenType, app_roles \in AppRolesChoices :
        LET issued == create_jwt_token([user_id |-> 1, user_type |-> role],
                                       DefaultExpiresDelta, token_type, 0)
            identity == [_id |-> 1, user_type |-> role, is_deleted |-> FALSE,
                         account_status |-> IF token_type = SIGN_UP THEN "SIGN_UP" ELSE "ACTIVE",
                         app_roles |-> app_roles, last_active |-> 0]
        IN  /\ now = 0
            /\ access_tokens =
                   IF token_type = RESET_PASSWORD THEN {}
                   ELSE {[user_id |-> 1, user_type |-> role, is_deleted |-> FALSE,
                          access_token |-> issued[1], expires_at |-> issued[2]]}
            /\ request_tokens =
                   IF token_type = RESET_PASSWORD
                   THEN {[user_id |-> 1, user_type |-> role, is_deleted |-> FALSE,
                          token |-> issued[1], expires_at |-> issued[2]]}
                   ELSE {}
            /\ users = IF role = SUPER_ADMIN THEN {} ELSE {identity}
            /\ admins = IF role = SUPER_ADMIN THEN {identity} ELSE {}
            /\ api_permissions = {[endpoint |-> <<"/", "u", "/", "e">>, method |-> "GET", permission_id |-> 1]}
            /\ app_roles_permissions = {[app_role_id |-> 1, permission_id |-> 1]}
            /\ request = NoRequest
            /\ self = NoGate
            /\ pc = "idle"
            /\ token_data = None
            /\ token = None
            /\ existing_user = None
            /\ outcome = Running
            /\ steps = <<>>
            /\ tasks = <<>>
            /\ FnAtRest
            /\ MwAtRest /\ CacheAtRest

----------------------------------------------------------------------------
(* JWTAuthUser.__call__ *)

(* the checks of the gate on the claims and the resolved record *)

\* _handle_super_admin without its access-level check
SuperAdminError_no_access_check(user_data, user, gate) ==
    IF user["account_status"] # "ACTIVE"
    THEN HTTPException(HTTP_401_UNAUTHORIZED, EXCEPTION_ACCOUNT_INACTIVE)
    ELSE None

\* _handle_super_admin with its two checks in the other order
SuperAdminError_access_check_first(user_data, user, gate) ==
    IF user_data["user_type"] \notin gate.access_levels
    THEN HTTPException(HTTP_403_FORBIDDEN, EXCEPTION_FORBIDDEN_ACCESS)
    ELSE IF user["account_status"] # "ACTIVE"
    THEN HTTPException(HTTP_401_UNAUTHORIZED, EXCEPTION_ACCOUNT_INACTIVE)
    ELSE None

\* the exception _handle_super_admin raises, or None
SuperAdminError(user_data, user, gate) ==
    IF user["account_status"] # "ACTIVE"
    THEN HTTPException(HTTP_401_UNAUTHORIZED, EXCEPTION_ACCOUNT_INACTIVE)
    ELSE IF user_data["user_type"] \notin gate.access_levels
    THEN HTTPException(HTTP_403_FORBIDDEN, EXCEPTION_FORBIDDEN_ACCESS)
    ELSE None

\* the account-status checks without the exemption of RESET_PASSWORD tokens
AccountStatusError_no_reset_exemption(user_data, user) ==
    IF user_data["token_type"] = SIGN_UP
    THEN IF user["account_status"] # "SIGN_UP"
         THEN HTTPException(HTTP_401_UNAUTHORIZED, EXCEPTION_ACCOUNT_INACTIVE)
         ELSE None
    ELSE IF user["account_status"] = "INACTIVE"
         THEN HTTPException(HTTP_401_UNAUTHORIZED, EXCEPTION_ACCOUNT_INACTIVE)
         ELSE IF user["account_status"] = "RESTRICTED"
         THEN HTTPException(HTTP_401_UNAUTHORIZED, EXCEPTION_ACCOUNT_RESTRICTED)
         ELSE IF user["account_status"] # "ACTIVE"
         THEN HTTPException(HTTP_401_UNAUTHORIZED, EXCEPTION_ACCOUNT_INACTIVE)
         ELSE None

\* the exception the account-status checks of __call__ raise, or None
AccountStatusError(user_data, user) ==
    IF user_data["token_type"] = SIGN_UP
    THEN IF user["account_status"] # "SIGN_UP"
         THEN HTTPException(HTTP_401_UNAUTHORIZED, EXCEPTION_ACCOUNT_INACTIVE)
         ELSE None
    ELSE IF user_data["token_type"] # RESET_PASSWORD
    THEN IF user["account_status"] = "INACTIVE"
         THEN HTTPException(HTTP_401_UNAUTHORIZED, EXCEPTION_ACCOUNT_INACTIVE)
         ELSE IF user["account_status"] = "RESTRICTED"
         THEN HTTPException(HTTP_401_UNAUTHORIZED, EXCEPTION_ACCOUNT_RESTRICTED)
         ELSE IF user["account_status"] # "ACTIVE"
         THEN HTTPException(HTTP_401_UNAUTHORIZED, EXCEPTION_ACCOUNT_INACTIVE)
         ELSE None
    ELSE None

\* the exception _validate_access_level raises, or None
AccessLevelError(user_data, gate) ==
    IF user_data["user_type"] \notin gate.access_levels
    THEN HTTPException(HTTP_403_FORBIDDEN, EXCEPTION_FORBIDDEN_ACCESS)
    ELSE None

(* the steps of __call__ *)

\* the request a client sends to an endpoint
Request(carrier, endpoint) ==
    [cookies |-> carrier.cookies, headers |-> carrier.headers, path |-> endpoint.path,
     path_params |-> endpoint.path_params, method |-> endpoint.method]

\* the gate raises: __call__ ends with the exception
Fail(exc, ran) ==
    /\ outcome' = Raise(exc)
    /\ steps' = steps \o ran
    /\ pc' = "done"

\* _validate_token that falls back to the Authorization header
ValidateToken_header_fallback(req, gate, t) ==
    LET cookie == Get(req.cookies, "access_token")
        tok == IF Truthy(cookie) THEN cookie ELSE Get(req.headers, "authorization")
        verified == verify_jwt_token(Strip(tok), FALSE, t)
    IN  IF ~Truthy(tok)
        THEN Raise(HTTPException(HTTP_401_UNAUTHORIZED, EXCEPTION_TOKEN_INVALID))
        ELSE IF verified.kind = "raise" THEN verified
        ELSE IF verified.value["token_type"] # gate.token_type
        THEN Raise(HTTPException(HTTP_401_UNAUTHORIZED, EXCEPTION_TOKEN_INVALID))
        ELSE Return(<<verified.value, tok>>)

\* _validate_token(request) of gate at clock t, and the token-type check of
\* __call__: what is raised, or returned as <<token_data, token>>
ValidateToken(req, gate, t) ==
    LET tok == Get(req.cookies, "access_token")
        verified == verify_jwt_token(Strip(tok), FALSE, t)
    IN  IF ~Truthy(tok)
        THEN Raise(HTTPException(HTTP_401_UNAUTHORIZED, EXCEPTION_TOKEN_INVALID))
        ELSE IF verified.kind = "raise" THEN verified
        ELSE IF verified.value["token_type"] # gate.token_type
        THEN Raise(HTTPException(HTTP_401_UNAUTHORIZED, EXCEPTION_TOKEN_INVALID))
        ELSE Return(<<verified.value, tok>>)

\* A request reaches a route whose dependency is the gate: __call__ runs
\* _validate_token and its token-type check, up to the store query of _get_user.
validate_token(carrier, endpoint, gate) ==
    /\ pc = "idle"
    /\ Len(tasks) < MaxTasks
    /\ request' = Request(carrier, endpoint)
    /\ self' = gate
    /\ existing_user' = None
    /\ LET validated == ValidateToken(request', gate, now)
           ran == IF Truthy(Get(carrier.cookies, "access_token"))
                  THEN <<"ExtractToken", "DecodeToken">> ELSE <<"ExtractToken">>
       IN  IF validated.kind = "raise"
           THEN /\ outcome' = validated
                /\ pc' = "done"
                /\ steps' = ran
                /\ token_data' = None
                /\ token' = None
           ELSE /\ outcome' = Running
                /\ pc' = "get_user"
                /\ steps' = ran
                /\ token_data' = validated.value[1]
                /\ token' = validated.value[2]
    /\ UNCHANGED <<outside_gate, now, store, tasks>>

\* the record _get_user reads for the claims and the raw token
ResolveUser(user_data, tok) ==
    IF user_data["user_type"] = SUPER_ADMIN
    THEN get_current_admin(user_data, tok)
    ELSE get_current_user(user_data, tok)

\* __call__ without its super-admin branch
Branch_never_super_admin(user_data) == "validate_permissions"

\* the branch of __call__ after _get_user: where it continues
Branch(user_data) ==
    IF user_data["user_type"] = SUPER_ADMIN THEN "handle_super_admin" ELSE "validate_permissions"

\* _get_user, and the branch of __call__ on the role
get_user ==
    /\ pc = "get_user"
    /\ LET user == ResolveUser(token_data, token)
       IN  IF user = <<>>
           THEN /\ Fail(HTTPException(HTTP_401_UNAUTHORIZED, EXCEPTION_TOKEN_INVALID), <<"ResolveUser">>)
                /\ UNCHANGED existing_user
           ELSE /\ existing_user' = user
                /\ steps' = steps \o <<"ResolveUser">>
                /\ pc' = Branch(token_data)
                /\ UNCHANGED outcome
    /\ UNCHANGED <<outside_gate, now, store, request, self, token_data, token, tasks>>

\* the task created twice
CreateTask_twice(user_id) ==
    tasks' = tasks \o << [coro |-> "update_last_active", user_id |-> user_id],
                         [coro |-> "update_last_active", user_id |-> user_id] >>

\* asyncio.create_task(update_last_active(user_id))
CreateTask(user_id) == tasks' = Append(tasks, [coro |-> "update_last_active", user_id |-> user_id])

\* _handle_super_admin
handle_super_admin ==
    /\ pc = "handle_super_admin"
    /\ LET error == SuperAdminError(token_data, existing_user, self)
       IN  IF error # None
           THEN /\ Fail(error, <<"HandleSuperAdmin">>)
                /\ UNCHANGED tasks
           ELSE /\ CreateTask(token_data["user_id"])
                /\ outcome' = Return(token_data)
                /\ steps' = steps \o <<"HandleSuperAdmin">>
                /\ pc' = "done"
    /\ UNCHANGED <<outside_gate, now, store, request, self, locals>>

\* __call__ with the account-status checks moved before _validate_permissions
validate_permissions_after_status ==
    /\ pc = "validate_permissions"
    /\ LET url_path == get_cleaned_url_path(request)
           error == AccountStatusError(token_data, existing_user)
       IN  IF error # None
           THEN Fail(error, <<"AccountStatusGate">>)
           ELSE IF ~check_permissions(url_path, request.method, existing_user)
           THEN Fail(HTTPException(HTTP_401_UNAUTHORIZED, EXCEPTION_PERMISSION_DOESNT_EXIST),
                     <<"AccountStatusGate", "ValidatePermissions">>)
           ELSE /\ steps' = steps \o <<"AccountStatusGate", "ValidatePermissions">>
                /\ pc' = "access_level"
                /\ UNCHANGED outcome
    /\ UNCHANGED <<outside_gate, now, store, request, self, locals, tasks>>

\* _validate_permissions
validate_permissions ==
    /\ pc = "validate_permissions"
    /\ LET url_path == get_cleaned_url_path(request)
       IN  IF ~check_permissions(url_path, request.method, existing_user)
           THEN Fail(HTTPException(HTTP_401_UNAUTHORIZED, EXCEPTION_PERMISSION_DOESNT_EXIST),
                     <<"ValidatePermissions">>)
           ELSE /\ steps' = steps \o <<"ValidatePermissions">>
                /\ pc' = "account_status"
                /\ UNCHANGED outcome
    /\ UNCHANGED <<outside_gate, now, store, request, self, locals, tasks>>

\* the account-status checks of __call__
account_status_gate ==
    /\ pc = "account_status"
    /\ LET error == AccountStatusError(token_data, existing_user)
       IN  IF error # None
           THEN Fail(error, <<"AccountStatusGate">>)
           ELSE /\ steps' = steps \o <<"AccountStatusGate">>
                /\ pc' = "access_level"
                /\ UNCHANGED outcome
    /\ UNCHANGED <<outside_gate, now, store, request, self, locals, tasks>>

\* _validate_access_level
validate_access_level ==
    /\ pc = "access_level"
    /\ LET error == AccessLevelError(token_data, self)
       IN  IF error # None
           THEN Fail(error, <<"AccessLevelGate">>)
           ELSE /\ steps' = steps \o <<"AccessLevelGate">>
                /\ pc' = "side_effect"
                /\ UNCHANGED outcome
    /\ UNCHANGED <<outside_gate, now, store, request, self, locals, tasks>>

\* the last lines of __call__: schedule the last_active update, return the claims
side_effect ==
    /\ pc = "side_effect"
    /\ CreateTask(token_data["user_id"])
    /\ outcome' = Return(token_data)
    /\ steps' = steps \o <<"SideEffect">>
    /\ pc' = "done"
    /\ UNCHANGED <<outside_gate, now, store, request, self, locals>>

\* __call__ has returned or raised: the request is over
RequestDone ==
    /\ pc = "done"
    /\ request' = NoRequest
    /\ self' = NoGate
    /\ pc' = "idle"
    /\ token_data' = None
    /\ token' = None
    /\ existing_user' = None
    /\ outcome' = Running
    /\ steps' = <<>>
    /\ UNCHANGED <<outside_gate, now, store, tasks>>

----------------------------------------------------------------------------
(* Background tasks *)

\* update_one(collection, {'_id': user_id}, {'$set': {'last_active': value}})
UpdateLastActiveDocs(collection, user_id, value) ==
    {IF u["_id"] = user_id THEN [u EXCEPT !["last_active"] = value] ELSE u : u \in collection}

\* update_last_active(user_id) runs
update_last_active ==
    /\ tasks # <<>>
    /\ users' = UpdateLastActiveDocs(users, Head(tasks).user_id, get_current_timestamp(now))
    /\ tasks' = Tail(tasks)
    /\ UNCHANGED <<outside_gate, now, access_tokens, request_tokens, admins, api_permissions,
                   app_roles_permissions, request, self, pc, locals, outcome, steps>>

\* update_last_active(user_id) runs and core_service.update_one raises: the
\* exception ends the task, which nothing awaits
update_last_active_fails ==
    /\ tasks # <<>>
    /\ tasks' = Tail(tasks)
    /\ UNCHANGED <<outside_gate, now, store, request, self, pc, locals, outcome, steps>>

----------------------------------------------------------------------------
(* The environment: the clock and the user-management flows *)

Tick ==
    /\ now < MaxTime
    /\ now' = now + 1
    /\ UNCHANGED <<outside_gate, store, request, self, pc, locals, outcome, steps, tasks>>

SetStatus(collection, status) ==
    {[u EXCEPT !["account_status"] = status] : u \in collection}

\* an account's status is changed
SetAccountStatus(status) ==
    /\ \E u \in users \cup admins : u["account_status"] # status
    /\ users' = SetStatus(users, status)
    /\ admins' = SetStatus(admins, status)
    /\ UNCHANGED <<outside_gate, now, access_tokens, request_tokens, api_permissions, app_roles_permissions,
                   request, self, pc, locals, outcome, steps, tasks>>

MarkDeleted(collection) == {[d EXCEPT !["is_deleted"] = TRUE] : d \in collection}

\* the identity record is soft-deleted
DeleteIdentity ==
    /\ \E u \in users \cup admins : ~u["is_deleted"]
    /\ users' = MarkDeleted(users)
    /\ admins' = MarkDeleted(admins)
    /\ UNCHANGED <<outside_gate, now, access_tokens, request_tokens, api_permissions, app_roles_permissions,
                   request, self, pc, locals, outcome, steps, tasks>>

\* the stored token record is soft-deleted (logout, token consumed)
DeleteToken ==
    /\ \E d \in access_tokens \cup request_tokens : ~d["is_deleted"]
    /\ access_tokens' = MarkDeleted(access_tokens)
    /\ request_tokens' = MarkDeleted(request_tokens)
    /\ UNCHANGED <<outside_gate, now, users, admins, api_permissions, app_roles_permissions,
                   request, self, pc, locals, outcome, steps, tasks>>

----------------------------------------------------------------------------

Next ==
    \/ \E carrier \in Carriers, endpoint \in Endpoints, gate \in Gates :
          validate_token(carrier, endpoint, gate)
    \/ get_user
    \/ handle_super_admin
    \/ validate_permissions
    \/ account_status_gate
    \/ validate_access_level
    \/ side_effect
    \/ RequestDone
    \/ update_last_active
    \/ update_last_active_fails
    \/ Tick
    \/ \E status \in AccountStatus : SetAccountStatus(status)
    \/ DeleteIdentity
    \/ DeleteToken

Spec == Init /\ [][Next]_vars

----------------------------------------------------------------------------
(* Vocabulary of the properties *)

Done == pc = "done"

Succeeded == pc = "done" /\ outcome.kind = "return"

Failed == pc = "done" /\ outcome.kind = "raise"

\* the cookie the request carries, and the claims signed into it
Cookie == Get(request.cookies, "access_token")

PresentedClaims == Strip(Cookie).claims

\* the token passed _validate_token: the claims are decoded
Decoded == token_data # None

\* _get_user returned a record
Resolved == existing_user # None

IsSuperAdmin == token_data["user_type"] = SUPER_ADMIN

IsPrefix(s, t) == Len(s) <= Len(t) /\ s = SubSeq(t, 1, Len(s))

Last(s) == s[Len(s)]

UserOrder ==
    <<"ExtractToken", "DecodeToken", "ResolveUser", "ValidatePermissions",
      "AccountStatusGate", "AccessLevelGate", "SideEffect">>

SuperAdminOrder == <<"ExtractToken", "DecodeToken", "ResolveUser", "HandleSuperAdmin">>

Unauthorized(detail) == HTTPException(HTTP_401_UNAUTHORIZED, detail)

Forbidden == HTTPException(HTTP_403_FORBIDDEN, EXCEPTION_FORBIDDEN_ACCESS)

\* the errors each step raises
ErrorsOf(step) ==
    CASE step = "ExtractToken" -> {Unauthorized(EXCEPTION_TOKEN_INVALID)}
      [] step = "DecodeToken" -> {JWTError, ExpiredSignatureError, Unauthorized(EXCEPTION_TOKEN_INVALID)}
      [] step = "ResolveUser" -> {Unauthorized(EXCEPTION_TOKEN_INVALID)}
      [] step = "HandleSuperAdmin" -> {Unauthorized(EXCEPTION_ACCOUNT_INACTIVE), Forbidden}
      [] step = "ValidatePermissions" -> {Unauthorized(EXCEPTION_PERMISSION_DOESNT_EXIST)}
      [] step = "AccountStatusGate" ->
            {Unauthorized(EXCEPTION_ACCOUNT_INACTIVE), Unauthorized(EXCEPTION_ACCOUNT_RESTRICTED)}
      [] step = "AccessLevelGate" -> {Forbidden}
      [] OTHER -> {}

\* the resolved record has app_roles, and a permission row of the cleaned path
\* and the method names a permission none of them holds
LacksPermission ==
    /\ "app_roles" \in DOMAIN existing_user
    /\ existing_user["app_roles"] # <<>>
    /\ \E row \in api_permissions :
          /\ row["endpoint"] = get_cleaned_url_path(request)
          /\ row["method"] = request.method
          /\ ~\E held \in app_roles_permissions :
                /\ held["permission_id"] = row["permission_id"]
                /\ \E i \in 1..Len(existing_user["app_roles"]) :
                      existing_user["app_roles"][i] = held["app_role_id"]

\* the account-status gate lets the resolved record through
StatusAdmits ==
    IF token_data["token_type"] = SIGN_UP THEN existing_user["account_status"] = "SIGN_UP"
    ELSE token_data["token_type"] = RESET_PASSWORD \/ existing_user["account_status"] = "ACTIVE"

AccessLevelOk == token_data["user_type"] \in self.access_levels

----------------------------------------------------------------------------
(* C1 *)

\* C1: every request runs ExtractToken, DecodeToken, ResolveUser and then, for a
\* non-super-admin, ValidatePermissions, AccountStatusGate, AccessLevelGate,
\* SideEffect, in this order; a request that fails stops at the failing step
\* with that step's error and schedules no last_active task; the first failing
\* check decides, so a missing permission wins over an INACTIVE account.
C1_StepsInOrderFirstFailureWins ==
    /\ IsPrefix(steps, UserOrder) \/ IsPrefix(steps, SuperAdminOrder)
    /\ (Len(steps) > 3 /\ ~IsSuperAdmin) => IsPrefix(steps, UserOrder)
    /\ Failed =>
          /\ steps # <<>>
          /\ outcome.exc \in ErrorsOf(Last(steps))
          /\ Len(tasks) < MaxTasks
    /\ Succeeded => steps \in {UserOrder, SuperAdminOrder}
    /\ (Done /\ ~Truthy(Cookie)) => steps = <<"ExtractToken">>
    /\ (Done /\ Resolved /\ ~IsSuperAdmin) =>
          IF LacksPermission
          THEN /\ steps = SubSeq(UserOrder, 1, 4)
               /\ outcome = Raise(Unauthorized(EXCEPTION_PERMISSION_DOESNT_EXIST))
          ELSE IF ~StatusAdmits
          THEN /\ steps = SubSeq(UserOrder, 1, 5)
               /\ outcome.kind = "raise"
          ELSE IF ~AccessLevelOk
          THEN /\ steps = SubSeq(UserOrder, 1, 6)
               /\ outcome = Raise(Forbidden)
          ELSE /\ steps = UserOrder
               /\ outcome.kind = "return"

\* a non-super-admin without the permission and with an INACTIVE account was
\* refused for the permission
C1_Witness ==
    /\ Done
    /\ Resolved
    /\ ~IsSuperAdmin
    /\ LacksPermission
    /\ existing_user["account_status"] = "INACTIVE"
    /\ outcome = Raise(Unauthorized(EXCEPTION_PERMISSION_DOESNT_EXIST))

----------------------------------------------------------------------------
(* C2 *)

\* the case of C2: a token that decoded and matched the gate's type, a user
\* type among the access levels, a resolved record that is ACTIVE
C2_Case ==
    /\ Done
    /\ Decoded
    /\ Resolved
    /\ token_data["token_type"] = self.token_type
    /\ AccessLevelOk
    /\ existing_user["account_status"] = "ACTIVE"

\* C2 as stated: in that case the gate succeeds, for every token type, and
\* returns the decoded claims
C2_Original_AnyTypeActiveSucceeds ==
    C2_Case => outcome = Return(PresentedClaims)

\* C2 as amended: in that case the gate returns exactly the decoded claims when
\* the caller is a super admin, or the token is not a SIGN_UP token and no
\* permission row is left unsatisfied
C2_ActiveSucceedsWithDecodedClaims ==
    (/\ C2_Case
     /\ \/ IsSuperAdmin
        \/ token_data["token_type"] # SIGN_UP /\ ~LacksPermission)
        => outcome = Return(PresentedClaims)

\* a non-super-admin with app_roles passed, claims unchanged
C2_Witness ==
    /\ C2_Case
    /\ ~IsSuperAdmin
    /\ existing_user["app_roles"] # <<>>
    /\ request.path_params # <<>>
    /\ outcome = Return(PresentedClaims)
    /\ {"iat", "exp", "token_type", "user_id", "user_type"} = DOMAIN outcome.value

----------------------------------------------------------------------------
(* C3 *)

\* the failure is an access-level mismatch
AccessLevelFailure ==
    \/ Last(steps) = "AccessLevelGate"
    \/ Last(steps) = "HandleSuperAdmin" /\ existing_user["account_status"] = "ACTIVE"

\* the failure is a denial of PermissionResolver
PermissionFailure == Last(steps) = "ValidatePermissions"

\* C3 as stated: a failure surfaces as 401, except an access-level mismatch and
\* a permission denial, which surface as 403
C3_Original_PermissionDenialIs403 ==
    Failed =>
        handle_exceptions_status(outcome.exc) =
            IF AccessLevelFailure \/ PermissionFailure
            THEN HTTP_403_FORBIDDEN ELSE HTTP_401_UNAUTHORIZED

\* C3 as amended: a failure surfaces as 401, a permission denial included,
\* except an access-level mismatch, which surfaces as 403
C3_FailuresAre401AccessLevelIs403 ==
    Failed =>
        handle_exceptions_status(outcome.exc) =
            IF AccessLevelFailure THEN HTTP_403_FORBIDDEN ELSE HTTP_401_UNAUTHORIZED

\* a permission denial surfaced as 401
C3_Witness ==
    /\ Failed
    /\ PermissionFailure
    /\ LacksPermission
    /\ handle_exceptions_status(outcome.exc) = HTTP_401_UNAUTHORIZED

----------------------------------------------------------------------------
(* C4 *)

\* C4: a request the gate admits has a user type among the gate's access
\* levels, the gate's token type, and a non-empty record resolved for its claims
C4_SuccessInvariant ==
    Succeeded =>
        /\ outcome.value["user_type"] \in self.access_levels
        /\ outcome.value["token_type"] = self.token_type
        /\ Resolved
        /\ existing_user # <<>>
        /\ existing_user["_id"] = outcome.value["user_id"]
        /\ existing_user["user_type"] = outcome.value["user_type"]

\* a super admin was admitted
C4_Witness ==
    /\ Succeeded
    /\ outcome.value["user_type"] = SUPER_ADMIN
    /\ steps = SuperAdminOrder

----------------------------------------------------------------------------
(* C5 *)

\* C5: a super admin whose resolved record is not ACTIVE is refused with
\* AccountInactive, status 401, whether or not SUPER_ADMIN is an access level
C5_InactiveSuperAdminIs401 ==
    (Done /\ Resolved /\ IsSuperAdmin /\ existing_user["account_status"] # "ACTIVE") =>
        /\ outcome = Raise(Unauthorized(EXCEPTION_ACCOUNT_INACTIVE))
        /\ handle_exceptions_status(outcome.exc) = HTTP_401_UNAUTHORIZED

\* an inactive super admin outside the access levels got the 401
C5_Witness ==
    /\ Done
    /\ Resolved
    /\ IsSuperAdmin
    /\ existing_user["account_status"] # "ACTIVE"
    /\ SUPER_ADMIN \notin self.access_levels
    /\ outcome = Raise(Unauthorized(EXCEPTION_ACCOUNT_INACTIVE))

----------------------------------------------------------------------------
(* C6 *)

NonAdminSteps == {"ValidatePermissions", "AccountStatusGate", "AccessLevelGate", "SideEffect"}

\* C6: a SUPER_ADMIN token never reaches the permission lookup or the steps
\* after it, and its outcome is decided by the account status and the access
\* levels alone
C6_SuperAdminSkipsPermissions ==
    /\ (Decoded /\ IsSuperAdmin) =>
          /\ pc \in {"get_user", "handle_super_admin", "done"}
          /\ \A i \in 1..Len(steps) : steps[i] \notin NonAdminSteps
    /\ (Done /\ Resolved /\ IsSuperAdmin) =>
          outcome =
              IF existing_user["account_status"] # "ACTIVE"
              THEN Raise(Unauthorized(EXCEPTION_ACCOUNT_INACTIVE))
              ELSE IF SUPER_ADMIN \notin self.access_levels THEN Raise(Forbidden)
              ELSE Return(PresentedClaims)

\* a super admin whose app_roles lack the permission of the endpoint was admitted
C6_Witness ==
    /\ Succeeded
    /\ IsSuperAdmin
    /\ LacksPermission

----------------------------------------------------------------------------
(* C7 *)

\* the account-status gate of the non-super-admin path has run
StatusGateRan == Len(steps) >= 5 /\ steps[5] = "AccountStatusGate"

\* it let the request through
StatusGatePassed == ~(Failed /\ Last(steps) = "AccountStatusGate")

\* C7: the gate admits only (SIGN_UP token and SIGN_UP status) or a
\* RESET_PASSWORD token or ACTIVE status; a SIGN_UP token with another status
\* fails 401; another non-reset token fails AccountInactive on INACTIVE and
\* AccountRestricted on RESTRICTED; a RESET_PASSWORD token always passes
C7_AccountStatusGate ==
    StatusGateRan =>
        LET tt == token_data["token_type"]
            st == existing_user["account_status"]
        IN  /\ StatusGatePassed =>
                  \/ tt = SIGN_UP /\ st = "SIGN_UP"
                  \/ tt = RESET_PASSWORD
                  \/ st = "ACTIVE"
            /\ (tt = SIGN_UP /\ st # "SIGN_UP") =>
                  /\ ~StatusGatePassed
                  /\ outcome.exc.kind = "HTTPException"
                  /\ outcome.exc.status_code = HTTP_401_UNAUTHORIZED
            /\ (tt \notin {SIGN_UP, RESET_PASSWORD} /\ st = "INACTIVE") =>
                  outcome = Raise(Unauthorized(EXCEPTION_ACCOUNT_INACTIVE))
            /\ (tt \notin {SIGN_UP, RESET_PASSWORD} /\ st = "RESTRICTED") =>
                  outcome = Raise(Unauthorized(EXCEPTION_ACCOUNT_RESTRICTED))
            /\ tt = RESET_PASSWORD => StatusGatePassed

\* a RESET_PASSWORD token of a RESTRICTED account was admitted
C7_Witness ==
    /\ Succeeded
    /\ StatusGateRan
    /\ token_data["token_type"] = RESET_PASSWORD
    /\ existing_user["account_status"] = "RESTRICTED"

----------------------------------------------------------------------------
(* C8 *)

\* C8: without a non-empty access_token cookie the request fails 401 at
\* ExtractToken, nothing is decoded and no record is read, whatever the
\* Authorization header holds
C8_CookieOnly ==
    /\ (pc # "idle" /\ ~Truthy(Cookie)) => Done
    /\ (Done /\ ~Truthy(Cookie)) =>
          /\ outcome = Raise(Unauthorized(EXCEPTION_TOKEN_INVALID))
          /\ handle_exceptions_status(outcome.exc) = HTTP_401_UNAUTHORIZED
          /\ steps = <<"ExtractToken">>
          /\ ~Decoded
          /\ ~Resolved

\* a request without the cookie, whose Authorization header holds a token the
\* gate would accept, was refused
C8_Witness ==
    /\ Failed
    /\ Cookie = None
    /\ "authorization" \in DOMAIN request.headers
    /\ ValidateToken([request EXCEPT !.cookies = [access_token |-> request.headers["authorization"]]],
                     self, now).kind = "return"
    /\ outcome = Raise(Unauthorized(EXCEPTION_TOKEN_INVALID))

----------------------------------------------------------------------------
(* C9 *)

\* the claims and token texts the resolver is asked about: both user ids, every
\* role, a token type of each token-storage collection
ClaimsUniverse == [user_id : {1, 2}, user_type : Role, token_type : {BEARER, RESET_PASSWORD}]

TextUniverse == IssuedTokens \cup {[t EXCEPT !.key = OtherKey] : t \in IssuedTokens}

\* (a) the token-storage collection of the token type holds a live record of
\* the user id, the user type and the raw token
StoredFor(user_data, tok) ==
    \E d \in (IF user_data["token_type"] = RESET_PASSWORD THEN request_tokens ELSE access_tokens) :
        /\ d["user_id"] = user_data["user_id"]
        /\ d["user_type"] = user_data["user_type"]
        /\ ~d["is_deleted"]
        /\ \/ "access_token" \in DOMAIN d /\ d["access_token"] = tok
           \/ "token" \in DOMAIN d /\ d["token"] = tok

\* (b) the identity collection of the role holds a live record of that id and
\* user type
IdentityFor(user_data) ==
    \E u \in (IF user_data["user_type"] = SUPER_ADMIN THEN admins ELSE users) :
        /\ u["_id"] = user_data["user_id"]
        /\ u["user_type"] = user_data["user_type"]
        /\ ~u["is_deleted"]

C9_ResolverIff ==
    \A user_data \in ClaimsUniverse, tok \in TextUniverse :
        LET record == ResolveUser(user_data, tok)
        IN  /\ (record # <<>>) <=> (StoredFor(user_data, tok) /\ IdentityFor(user_data))
            /\ record # <<>> =>
                  /\ record \in (IF user_data["user_type"] = SUPER_ADMIN THEN admins ELSE users)
                  /\ record["_id"] = user_data["user_id"]

C9_GateStep ==
    (pc = "get_user" /\ pc' # "get_user") =>
        IF StoredFor(token_data, token) /\ IdentityFor(token_data)
        THEN /\ pc' # "done"
             /\ existing_user' \in users \cup admins
        ELSE /\ pc' = "done"
             /\ outcome' = Raise(Unauthorized(EXCEPTION_TOKEN_INVALID))

\* C9: the resolver returns a record exactly when (a) and (b) hold, and the
\* gate fails 401 when it returns none; so a soft-deleted token record or
\* identity record ends the authentication of a JWT that is still valid
C9_ResolveIffStoredAndIdentity == []C9_ResolverIff /\ [][C9_GateStep]_vars

\* a JWT that still verifies was refused at ResolveUser after its token record
\* was soft-deleted
C9_Witness ==
    /\ Failed
    /\ Last(steps) = "ResolveUser"
    /\ verify_jwt_token(Strip(Cookie), FALSE, now).kind = "return"
    /\ IdentityFor(token_data)
    /\ \E d \in access_tokens \cup request_tokens :
          /\ d["is_deleted"]
          /\ Cookie \in {Get(d, "access_token"), Get(d, "token")}

----------------------------------------------------------------------------
(* C10 *)

\* C10: a reset token whose JWT still verifies but whose storage record has
\* expired is refused by the resolve step
C10_ExpiredStorageRecordIsRefused ==
    \A d \in request_tokens :
        (/\ verify_jwt_token(d["token"], FALSE, now).kind = "return"
         /\ has_expired(d["expires_at"], now))
            => ResolveUser(d["token"].claims, d["token"]) = <<>>

----------------------------------------------------------------------------
(* FnSpec: the pure functions applied to inputs drawn from bounded sets *)

\* the gate, the clock and the session collections at rest
GateAtRest ==
    /\ now = 0
    /\ access_tokens = {}
    /\ request_tokens = {}
    /\ users = {}
    /\ admins = {}
    /\ request = NoRequest
    /\ self = NoGate
    /\ pc = "idle"
    /\ token_data = None
    /\ token = None
    /\ existing_user = None
    /\ outcome = Running
    /\ steps = <<>>
    /\ tasks = <<>>

\* at most MaxRows rows in a collection
MaxRows == 2

UpTo(universe, n) == {rows \in SUBSET universe : Cardinality(rows) <= n}

PathA == <<"/", "a">>
PathB == <<"/", "b">>

\* permission-requirement rows: two for GET /a, one for POST /a, one for GET /b
ApiPermissionRows ==
    {[endpoint |-> PathA, method |-> "GET", permission_id |-> 1],
     [endpoint |-> PathA, method |-> "GET", permission_id |-> 2],
     [endpoint |-> PathA, method |-> "POST", permission_id |-> 1],
     [endpoint |-> PathB, method |-> "GET", permission_id |-> 1]}

\* role-to-permission rows
AppRolePermissionRows == [app_role_id : {1, 2}, permission_id : {1, 2}]

\* user records: without app_roles, with empty or non-empty app_roles
CheckedUsers ==
    {[_id |-> 1]} \cup {[_id |-> 1, app_roles |-> r] : r \in {<<>>, <<1>>, <<2>>, <<1, 2>>}}

FnInit ==
    /\ GateAtRest
    /\ api_permissions \in UpTo(ApiPermissionRows, MaxRows)
    /\ app_roles_permissions \in UpTo(AppRolePermissionRows, MaxRows)
    /\ FnAtRest
    /\ MwAtRest /\ CacheAtRest

\* what a call did: its result and the store queries it made
Did(result, queries) == [result |-> result, queries |-> queries]

\* the functions that read no collection are applied with the permission
\* collections empty
NoPermissionRows == api_permissions = {} /\ app_roles_permissions = {}

\* await self.check_permissions(endpoint, method, user)
call_check_permissions(endpoint, method, user) ==
    /\ fn = NoCall
    /\ fn' = [op |-> "check_permissions", args |-> <<endpoint, method, user>>]
    /\ ret' = Did(IF check_permissions(endpoint, method, user)
                  THEN Return(None)
                  ELSE Raise(HTTPException(HTTP_401_UNAUTHORIZED, EXCEPTION_PERMISSION_DOESNT_EXIST)),
                  PermissionQueries(endpoint, method, user))
    /\ UNCHANGED outside_fn

\* a route has at most MaxSegments segments
MaxSegments == 3

\* a segment of a matched route: its text in the URL, and whether it is the
\* value of a route parameter ({id}) or a literal of the route
RouteSegments == [text : {<<"u">>, <<"4">>, <<"4", "2">>}, param : BOOLEAN]

MatchedRoutes == UNION {[1..n -> RouteSegments] : n \in 1..MaxSegments}

RECURSIVE JoinPath(_)
\* the URL path of a sequence of segments: "/" before each
JoinPath(segments) ==
    IF segments = <<>> THEN <<>>
    ELSE <<"/">> \o Head(segments).text \o JoinPath(Tail(segments))

RECURSIVE SelectSegments(_, _)
\* the segments that are (param = TRUE) or are not route parameters, in order
SelectSegments(segments, param) ==
    IF segments = <<>> THEN <<>>
    ELSE (IF Head(segments).param = param THEN <<Head(segments)>> ELSE <<>>)
             \o SelectSegments(Tail(segments), param)

\* request.path_params.values() of the matched route
PathParamValues(route) ==
    LET params == SelectSegments(route, TRUE)
    IN  [i \in DOMAIN params |-> params[i].text]

\* the request the router hands over for a matched route
RoutedRequest(route) ==
    [NoRequest EXCEPT !.path = JoinPath(route), !.path_params = PathParamValues(route),
                      !.method = "GET"]

\* self._get_cleaned_url_path(request)
call_get_cleaned_url_path(route) ==
    /\ fn = NoCall
    /\ NoPermissionRows
    /\ fn' = [op |-> "get_cleaned_url_path", args |-> <<route>>]
    /\ ret' = Did(Return(get_cleaned_url_path(RoutedRequest(route))), <<>>)
    /\ UNCHANGED outside_fn

\* the clock of the token calls counts fractions of a second
TicksPerSecond == 2

MaxTick == 3

MaxDelta == 3

\* the latest clock a token is decoded at: a full second after the latest expiry
LatestTick == MaxTick + MaxDelta + TicksPerSecond

\* calendar.timegm(d.utctimetuple()), by which jose turns a datetime into a
\* claim and reads the clock: the whole seconds, the fraction dropped
timegm(tick) == tick \div TicksPerSecond

\* create_jwt_token that encodes the time of issue as the expiry
create_jwt_token_at_no_delta(payload, expires_delta, token_type, tick) ==
    LET to_encode == Merge(payload, [token_type |-> token_type, iat |-> timegm(tick),
                                     exp |-> timegm(tick)])
    IN  <<jwt_encode(to_encode, JWT_SECRET), (tick * 1000) \div TicksPerSecond>>

\* create_jwt_token(payload, expires_delta, token_type) when datetime.now is
\* tick and expires_delta counts ticks: jwt.encode writes the datetimes iat and
\* exp as whole seconds, exp_timestamp keeps the milliseconds
create_jwt_token_at(payload, expires_delta, token_type, tick) ==
    LET expire == tick + expires_delta
        exp_timestamp == (expire * 1000) \div TicksPerSecond
        to_encode == Merge(payload, [token_type |-> token_type, iat |-> timegm(tick),
                                     exp |-> timegm(expire)])
    IN  <<jwt_encode(to_encode, JWT_SECRET), exp_timestamp>>

\* verify_jwt_token(token) when datetime.utcnow is tick
verify_jwt_token_at(tok, tick) == verify_jwt_token(tok, FALSE, timegm(tick))

\* a token is created at tick with expires_delta, presented signed by key (the
\* secret, or another key: a forgery of the same claims), and verified at later
call_verify_jwt_token(tick, expires_delta, key, later) ==
    /\ fn = NoCall
    /\ NoPermissionRows
    /\ tick <= later
    /\ LET created == create_jwt_token_at([user_id |-> 1], expires_delta, BEARER, tick)
           presented == [created[1] EXCEPT !.key = key]
       IN  /\ fn' = [op |-> "verify_jwt_token",
                     args |-> <<tick, expires_delta, later, presented, created[2]>>]
           /\ ret' = Did(verify_jwt_token_at(presented, later), <<>>)
    /\ UNCHANGED outside_fn

\* the claims a payload may carry beside those create_jwt_token sets: each
\* claim is absent or has one of these values
ClaimChoices ==
    [user_id |-> {1}, token_type |-> {"forged"}, iat |-> {7}, exp |-> {0}, aud |-> {"x"},
     nbf |-> {0, 9}, sub |-> {"s"}]

PayloadKeys == <<"user_id", "token_type", "iat", "exp", "aud", "nbf", "sub">>

RECURSIVE PayloadsFrom(_)

\* the payloads over the keys PayloadKeys[i], PayloadKeys[i + 1], ...
PayloadsFrom(i) ==
    IF i > Len(PayloadKeys) THEN {<<>>}
    ELSE LET rest == PayloadsFrom(i + 1)
         IN  rest \cup {Merge(payload, PayloadKeys[i] :> v) :
                            payload \in rest, v \in ClaimChoices[PayloadKeys[i]]}

Payloads == PayloadsFrom(1)

\* create_jwt_token that sets its three claims on the caller's mapping
payload_after_create_jwt_token_no_copy(payload, expires_delta, token_type, tick) ==
    Merge(payload, [token_type |-> token_type, iat |-> timegm(tick),
                    exp |-> timegm(tick + expires_delta)])

\* the caller's mapping after create_jwt_token: to_encode = payload.copy(), and
\* to_encode |= {...} changes the copy
payload_after_create_jwt_token(payload, expires_delta, token_type, tick) == payload

\* a token is created from payload at tick and verified at once
call_create_and_verify(payload, expires_delta, token_type, remove_reserved_claims, tick) ==
    /\ fn = NoCall
    /\ NoPermissionRows
    /\ LET created == create_jwt_token_at(payload, expires_delta, token_type, tick)
           after == payload_after_create_jwt_token(payload, expires_delta, token_type, tick)
       IN  /\ fn' = [op |-> "create_and_verify",
                     args |-> <<payload, expires_delta, token_type, remove_reserved_claims,
                                tick, after>>]
           /\ ret' = Did(verify_jwt_token(created[1], remove_reserved_claims, timegm(tick)),
                         <<>>)
    /\ UNCHANGED outside_fn

\* the values request.json() returns, by their Python type: str, int, dict, list
Str(chars) == [str |-> chars]

Number(n) == [int |-> n]

Dict(d) == [dict |-> d]

List(l) == [list |-> l]

IsStr(value) == "str" \in DOMAIN value

IsDict(value) == "dict" \in DOMAIN value

IsList(value) == "list" \in DOMAIN value

Secret == Str(<<"p", "w">>)

SensitiveFields ==
    {"password", "new_password", "current_password", "access_token", "refresh_token"}

\* mask_string that returns one asterisk whatever the value
mask_string_one_asterisk(value) == Str(<<"*">>)

\* mask_string(value): '*' * len(value)
mask_string(value) == Str([i \in DOMAIN value.str |-> "*"])

\* mask_dict(data): the sensitive keys of this dict whose value is a str
mask_dict(data) ==
    [key \in DOMAIN data |->
        IF key \in SensitiveFields /\ IsStr(data[key]) THEN mask_string(data[key])
        ELSE data[key]]

\* mask_sensitive_data(data): the dicts of a list, or a dict; anything else is
\* returned as it is
mask_sensitive_data(data) ==
    IF IsList(data)
    THEN List([i \in DOMAIN data.list |->
                  IF IsDict(data.list[i]) THEN Dict(mask_dict(data.list[i].dict))
                  ELSE data.list[i]])
    ELSE IF IsDict(data) THEN Dict(mask_dict(data.dict))
    ELSE data

\* the values a body holds under a key
BodyValues == {Str(<<>>), Secret, Str(<<"*", "*">>), Number(5), Dict([password |-> Secret])}

BodyKeys == <<"name", "password", "refresh_token">>

RECURSIVE DictsFrom(_)

\* the dicts over the keys BodyKeys[i], BodyKeys[i + 1], ...
DictsFrom(i) ==
    IF i > Len(BodyKeys) THEN {<<>>}
    ELSE LET rest == DictsFrom(i + 1)
         IN  rest \cup {Merge(d, BodyKeys[i] :> v) : d \in rest, v \in BodyValues}

\* the items of a body that is a list
ListItems ==
    {Dict([password |-> Secret]), Dict([name |-> Secret, new_password |-> Str(<<"q">>)]),
     Secret, List(<<Dict([current_password |-> Secret])>>)}

MaxItems == 2

\* the bodies request.json() returns: objects, lists, a string, a number
ParsedBodies ==
    {Dict(d) : d \in DictsFrom(1)}
        \cup {List(l) : l \in UNION {[1 .. n -> ListItems] : n \in 0 .. MaxItems}}
        \cup {Secret, Number(5)}

\* self.mask_sensitive_data(body)
call_mask_sensitive_data(body) ==
    /\ fn = NoCall
    /\ NoPermissionRows
    /\ fn' = [op |-> "mask_sensitive_data", args |-> <<body>>]
    /\ ret' = Did(Return(mask_sensitive_data(body)), <<>>)
    /\ UNCHANGED outside_fn

\* the identity records of the two collections, before a touch
TouchedRecords(role) == {[_id |-> id, user_type |-> role, last_active |-> 0] : id \in {1, 2}}

\* what update_last_active(user_id) at clock t leaves in the two identity
\* collections: update_one on Collections.USERS
UpdateLastActive(users_before, admins_before, user_id, t) ==
    [users |-> UpdateLastActiveDocs(users_before, user_id, get_current_timestamp(t)),
     admins |-> admins_before]

\* the task the gate scheduled for a caller resolved from the collection of its
\* role runs: update_last_active(token_data['user_id'])
call_update_last_active(users_before, admins_before, role, user_id) ==
    /\ fn = NoCall
    /\ NoPermissionRows
    /\ \E u \in (IF role = SUPER_ADMIN THEN admins_before ELSE users_before) : u["_id"] = user_id
    /\ fn' = [op |-> "update_last_active", args |-> <<users_before, admins_before, role, user_id>>]
    /\ ret' = Did(Return(UpdateLastActive(users_before, admins_before, user_id, 1)), <<>>)
    /\ UNCHANGED outside_fn

\* one function is applied in a behaviour
FnNext ==
    /\ fn = NoCall
    /\ \/ \E endpoint \in {PathA, PathB}, method \in {"GET", "POST"}, user \in CheckedUsers :
             call_check_permissions(endpoint, method, user)
       \/ \E route \in MatchedRoutes : call_get_cleaned_url_path(route)
       \/ \E tick \in 0 .. MaxTick, expires_delta \in 0 .. MaxDelta, key \in {JWT_SECRET, OtherKey},
             later \in 0 .. LatestTick :
             call_verify_jwt_token(tick, expires_delta, key, later)
       \/ \E payload \in Payloads, expires_delta \in 0 .. MaxDelta, token_type \in {BEARER, REFRESH},
             remove_reserved_claims \in BOOLEAN, tick \in 0 .. MaxTick :
             call_create_and_verify(payload, expires_delta, token_type, remove_reserved_claims,
                                    tick)
       \/ \E body \in ParsedBodies : call_mask_sensitive_data(body)
       \/ \E users_before \in SUBSET TouchedRecords(CLIENT),
             admins_before \in SUBSET TouchedRecords(SUPER_ADMIN),
             role \in {SUPER_ADMIN, CLIENT}, user_id \in {1, 2} :
             call_update_last_active(users_before, admins_before, role, user_id)

FnSpec == FnInit /\ [][FnNext]_vars

----------------------------------------------------------------------------
(* C11 *)

\* the user holds the permission of the row through one of its app_roles
HoldsPermission(user, row) ==
    \E held \in app_roles_permissions :
        /\ held["permission_id"] = row["permission_id"]
        /\ \E i \in DOMAIN user["app_roles"] : user["app_roles"][i] = held["app_role_id"]

NoAppRoles(user) == "app_roles" \notin DOMAIN user \/ user["app_roles"] = <<>>

MatchingRows(endpoint, method) ==
    {row \in api_permissions : row["endpoint"] = endpoint /\ row["method"] = method}

\* C11: check_permissions returns exactly when the user has no or empty
\* app_roles, and then without a store query, or holds the permission of every
\* row matching the endpoint and the method; otherwise it raises the
\* permission failure
C11_CheckPermissionsIff ==
    fn.op = "check_permissions" =>
        LET endpoint == fn.args[1]
            method == fn.args[2]
            user == fn.args[3]
        IN  /\ ret.result.kind = "return" <=>
                  \/ NoAppRoles(user)
                  \/ \A row \in MatchingRows(endpoint, method) : HoldsPermission(user, row)
            /\ NoAppRoles(user) => ret.queries = <<>>
            /\ ret.result.kind # "return" =>
                  ret.result = Raise(HTTPException(HTTP_401_UNAUTHORIZED,
                                                   EXCEPTION_PERMISSION_DOESNT_EXIST))

\* two rows match, the user's roles hold the permission of one only: refused
C11_Witness ==
    /\ fn.op = "check_permissions"
    /\ ~NoAppRoles(fn.args[3])
    /\ Cardinality(MatchingRows(fn.args[1], fn.args[2])) = 2
    /\ \E row \in MatchingRows(fn.args[1], fn.args[2]) : HoldsPermission(fn.args[3], row)
    /\ ret.result.kind = "raise"

----------------------------------------------------------------------------
(* C12 *)

\* C12: path cleaning removes exactly the segments that are values of route
\* parameters and leaves every other segment as it is
C12_RemovesExactlyParameterSegments ==
    fn.op = "get_cleaned_url_path" =>
        ret.result = Return(JoinPath(SelectSegments(fn.args[1], FALSE)))

----------------------------------------------------------------------------
(* C13 *)

\* __call__ ends in this step
GateReturns == pc # "done" /\ pc' = "done" /\ outcome'.kind = "return"

GateRaises == pc # "done" /\ pc' = "done" /\ outcome'.kind = "raise"

C13_Step ==
    /\ GateReturns =>
          /\ tasks' = Append(tasks, [coro |-> "update_last_active",
                                     user_id |-> token_data["user_id"]])
          /\ steps' \in {UserOrder, SuperAdminOrder}
          /\ outcome' = Return(token_data)
    /\ GateRaises => tasks' = tasks
    /\ Len(tasks') > Len(tasks) => GateReturns
    /\ Len(tasks') < Len(tasks) => UNCHANGED <<request, self, pc, locals, outcome, steps>>
    /\ (pc = "done" /\ pc' = "done") => outcome' = outcome

\* C13: update_last_active is scheduled once by the step in which the gate
\* returns the claims, after all steps of the path, and by no other step; the
\* gate returns with the task still pending, and the task, whether it succeeds
\* or fails, leaves the gate's result as it was
C13_TouchScheduledOnceOnSuccess == [][C13_Step]_vars

\* the gate has returned the claims while the update it scheduled is pending
C13_Witness ==
    /\ Succeeded
    /\ tasks # <<>>
    /\ Last(tasks) = [coro |-> "update_last_active", user_id |-> token_data["user_id"]]

----------------------------------------------------------------------------
(* ExceptionHandlerMiddleware: handle_exceptions and get_error_response *)

\* the classes an exception of class kind is an instance of
Mro(kind) ==
    CASE kind = "JSONDecodeError" -> {"JSONDecodeError", "ValueError", "Exception"}
      [] kind = "ExpiredSignatureError" -> {"ExpiredSignatureError", "JWTError", "Exception"}
      [] kind = "JWTClaimsError" -> {"JWTClaimsError", "JWTError", "Exception"}
      [] OTHER -> {kind, "Exception"}

\* isinstance(exc, cls): what an except clause tests
IsInstance(exc, cls) == cls \in Mro(exc.kind)

\* an exception: its class, str(error) and hex(hash(error))
Error(kind, text, hex_code) == [kind |-> kind, text |-> text, hex_code |-> hex_code]

\* RequestValidationError(errors)
ValidationError(errors, hex_code) ==
    [kind |-> "RequestValidationError", text |-> "validation errors", hex_code |-> hex_code,
     errors |-> errors]

\* HTTPException(status_code, detail, headers)
WithHeaders(exc, headers) ==
    [kind |-> exc.kind, status_code |-> exc.status_code, detail |-> exc.detail,
     headers |-> headers]

EXCEPTION_GENERIC_ERROR == "EXCEPTION_GENERIC_ERROR"

HTTP_200_OK == 200

\* f'{text}: {hex_code}'
Tagged(text, hex_code) == [text |-> text, tag |-> <<hex_code>>]

\* f'{text}'
Untagged(text) == [text |-> text, tag |-> <<>>]

\* the detail argument left at its default: None, as falsy as []
NoDetail == <<>>

\* get_error_response without its test of detail
get_error_response_always_detail(message, code, detail) ==
    [status |-> "FAIL",
     errorData |-> [errorCode |-> code, message |-> message, detail |-> detail]]

get_error_response(message, code, detail) ==
    IF detail # <<>>
    THEN [status |-> "FAIL",
          errorData |-> [errorCode |-> code, message |-> message, detail |-> detail]]
    ELSE [status |-> "FAIL", errorData |-> [errorCode |-> code, message |-> message]]

JSONResponse(status_code, content, headers) ==
    [status_code |-> status_code, content |-> content, headers |-> headers]

\* what an except clause of handle_exceptions does: the response and the log line
Handled(response, error_message, text) ==
    [response |-> response, logged |-> [level |-> "exception", message |-> error_message,
                                        text |-> text]]

\* the except clause for RequestValidationError
CatchValidationError(error) ==
    LET errors == error.errors
        error_message ==
            Tagged(IF errors # <<>>
                   THEN <<"Request validation error at", Last(errors[1].loc), errors[1].msg>>
                   ELSE <<"Request validation error unknown">>,
                   error.hex_code)
    IN  Handled(JSONResponse(HTTP_422_UNPROCESSABLE_ENTITY,
                             get_error_response(error_message, HTTP_422_UNPROCESSABLE_ENTITY,
                                                errors),
                             <<>>),
                error_message, error.text)

\* the except clause for ValueError
CatchValueError(error) ==
    LET error_message == Tagged(<<error.text>>, error.hex_code)
    IN  Handled(JSONResponse(HTTP_422_UNPROCESSABLE_ENTITY,
                             get_error_response(error_message, HTTP_422_UNPROCESSABLE_ENTITY,
                                                NoDetail),
                             <<>>),
                error_message, error.text)

\* the except clause for ExpiredSignatureError
CatchExpiredSignatureError(error) ==
    LET error_message == Tagged(<<EXCEPTION_TOKEN_INVALID>>, error.hex_code)
    IN  Handled(JSONResponse(HTTP_401_UNAUTHORIZED,
                             get_error_response(error_message, HTTP_401_UNAUTHORIZED, NoDetail),
                             <<>>),
                error_message, error.text)

\* the except clause for JWTError
CatchJWTError(error) ==
    LET error_message == Tagged(<<error.text>>, error.hex_code)
    IN  Handled(JSONResponse(HTTP_401_UNAUTHORIZED,
                             get_error_response(error_message, HTTP_401_UNAUTHORIZED, NoDetail),
                             <<>>),
                error_message, error.text)

\* the except clause for HTTPException
CatchHTTPException(error) ==
    LET error_message == Untagged(<<error.detail>>)
        headers == IF "headers" \in DOMAIN error THEN error.headers ELSE <<>>
    IN  Handled(JSONResponse(error.status_code,
                             get_error_response(error_message, error.status_code, NoDetail),
                             headers),
                error_message, error.detail)

\* the except clause for Exception with the hex_code left out of the message
CatchException_untagged(error) ==
    LET error_message == Untagged(<<EXCEPTION_GENERIC_ERROR>>)
    IN  Handled(JSONResponse(HTTP_500_INTERNAL_SERVER_ERROR,
                             get_error_response(error_message, HTTP_500_INTERNAL_SERVER_ERROR,
                                                NoDetail),
                             <<>>),
                error_message, error.text)

\* the except clause for Exception
CatchException(error) ==
    LET error_message == Tagged(<<EXCEPTION_GENERIC_ERROR>>, error.hex_code)
    IN  Handled(JSONResponse(HTTP_500_INTERNAL_SERVER_ERROR,
                             get_error_response(error_message, HTTP_500_INTERNAL_SERVER_ERROR,
                                                NoDetail),
                             <<>>),
                error_message, error.text)

\* handle_exceptions that logs the exception and returns None
handle_exceptions_returns_none(error) ==
    [response |-> None, logged |-> CatchException(error).logged]

\* handle_exceptions with the clause for JWTError before the one for
\* ExpiredSignatureError
handle_exceptions_jwt_clause_first(error) ==
    IF IsInstance(error, "RequestValidationError") THEN CatchValidationError(error)
    ELSE IF IsInstance(error, "ValueError") THEN CatchValueError(error)
    ELSE IF IsInstance(error, "JWTError") THEN CatchJWTError(error)
    ELSE IF IsInstance(error, "ExpiredSignatureError") THEN CatchExpiredSignatureError(error)
    ELSE IF IsInstance(error, "HTTPException") THEN CatchHTTPException(error)
    ELSE CatchException(error)

\* the except clauses of handle_exceptions, tried in the order of the source
handle_exceptions(error) ==
    IF IsInstance(error, "RequestValidationError") THEN CatchValidationError(error)
    ELSE IF IsInstance(error, "ValueError") THEN CatchValueError(error)
    ELSE IF IsInstance(error, "ExpiredSignatureError") THEN CatchExpiredSignatureError(error)
    ELSE IF IsInstance(error, "JWTError") THEN CatchJWTError(error)
    ELSE IF IsInstance(error, "HTTPException") THEN CatchHTTPException(error)
    ELSE CatchException(error)

\* the try block without its assignment to response.headers
AddProcessTime_nothing(response) == response

\* response.headers['X-Process-Time'] = f'{round(process_time * 1000, 2)}'
AddProcessTime(response) ==
    [response EXCEPT !.headers = ("X-Process-Time" :> "process_time") @@ response.headers]

----------------------------------------------------------------------------
(* RequestsTrackerMiddleware and MwSpec *)

\* the bodies of the requests: a JSON object with a password, one with the
\* password a level down, a list of objects, an object whose password is a
\* number, or bytes that are not JSON
JsonBody == Dict([name |-> Str(<<"n">>), password |-> Secret])

NestedBody == Dict([user |-> Dict([name |-> Str(<<"n">>), password |-> Secret])])

ListBody == List(<<Dict([access_token |-> Secret]), Str(<<"n">>)>>)

NumberBody == Dict([password |-> Number(1234)])

NotJson == [raw |-> "not json"]

\* the requests: path, method, body, and whether the server gave a peer
\* address (request.client); none carries X-Forwarded-For
MwRequests ==
    [path : {<<"/">>, <<"/", "x">>}, method : {"GET", "POST"},
     body : {JsonBody, NestedBody, ListBody, NumberBody, NotJson},
     client : BOOLEAN]

OkResponse == JSONResponse(HTTP_200_OK, [status |-> "SUCCESS"], <<>>)

ValidationErrors ==
    << [loc |-> <<"body", "email">>, msg |-> "field required"],
       [loc |-> <<"body", "age">>, msg |-> "not an integer"] >>

\* the exceptions the handler chain raises
RaisedExceptions ==
    {ValidationError(<<>>, "0x1"),
     ValidationError(ValidationErrors, "0x1"),
     Error("ValueError", "bad value", "0x2"),
     Error("JSONDecodeError", "Expecting value", "0x3"),
     Error("ExpiredSignatureError", "Signature has expired.", "0x4"),
     Error("JWTError", "Signature verification failed.", "0x5"),
     HTTPException(HTTP_401_UNAUTHORIZED, EXCEPTION_TOKEN_INVALID),
     WithHeaders(HTTPException(HTTP_403_FORBIDDEN, EXCEPTION_FORBIDDEN_ACCESS),
                 [authenticate |-> "Basic"]),
     Error("KeyError", "user_id", "0x6")}

\* what the handler chain does: it returns a response, or raises
ChainOutcomes == {Return(OkResponse)} \cup {Raise(e) : e \in RaisedExceptions}

Task(coro) == [coro |-> coro]

\* a task ended: with the exception that left its coroutine, or "none"
Finished(coro, exception) == [coro |-> coro, exception |-> exception]

\* should_skip_logging that skips no request
should_skip_logging_never(req) == FALSE

\* should_skip_logging(request)
should_skip_logging(req) == req.path \in {<<"/">>}

\* A request enters ExceptionHandlerMiddleware.dispatch: handle_exceptions
\* awaits call_next, which runs RequestsTrackerMiddleware.dispatch
receive(req) ==
    /\ mw_pc = "idle"
    /\ mw_request' = req
    /\ mw_pc' = "tracker"
    /\ UNCHANGED <<outside_mw, mw_result, mw_response, mw_calls, mw_tasks, mw_finished, mw_log,
                   tracked>>

\* RequestsTrackerMiddleware.dispatch that goes to call_next without creating
\* the tracking task
create_track_task_not_created ==
    /\ mw_pc = "tracker"
    /\ mw_pc' = "handler"
    /\ UNCHANGED <<outside_mw, mw_request, mw_result, mw_response, mw_calls, mw_tasks,
                   mw_finished, mw_log, tracked>>

\* RequestsTrackerMiddleware.dispatch: create_task(track_request_address), then
\* await call_next
create_track_task ==
    /\ mw_pc = "tracker"
    /\ mw_tasks' = mw_tasks \cup {Task("track_request_address")}
    /\ mw_pc' = "handler"
    /\ UNCHANGED <<outside_mw, mw_request, mw_result, mw_response, mw_calls, mw_finished,
                   mw_log, tracked>>

\* The handler chain runs: it returns a response to RequestsTrackerMiddleware,
\* having scheduled update_last_active when a gate admitted the request, or it
\* raises, and the exception passes through RequestsTrackerMiddleware.dispatch
handler(chain_outcome, gate_admits) ==
    /\ mw_pc = "handler"
    /\ mw_calls' = mw_calls + 1
    /\ mw_result' = chain_outcome
    /\ IF chain_outcome.kind = "return"
       THEN /\ mw_pc' = "tracker_return"
            /\ mw_tasks' = mw_tasks \cup (IF gate_admits THEN {Task("update_last_active")} ELSE {})
       ELSE /\ mw_pc' = "except"
            /\ UNCHANGED mw_tasks
    /\ UNCHANGED <<outside_mw, mw_request, mw_response, mw_finished, mw_log, tracked>>

\* RequestsTrackerMiddleware.dispatch after call_next: create_task(log_api_requests),
\* return response
create_log_task ==
    /\ mw_pc = "tracker_return"
    /\ mw_tasks' = mw_tasks \cup {Task("log_api_requests")}
    /\ mw_pc' = "process_time"
    /\ UNCHANGED <<outside_mw, mw_request, mw_result, mw_response, mw_calls, mw_finished,
                   mw_log, tracked>>

\* handle_exceptions after call_next returned: the timing header
add_process_time ==
    /\ mw_pc = "process_time"
    /\ mw_response' = AddProcessTime(mw_result.value)
    /\ mw_pc' = "respond"
    /\ UNCHANGED <<outside_mw, mw_request, mw_result, mw_calls, mw_tasks, mw_finished, mw_log,
                   tracked>>

\* handle_exceptions when call_next raised: the matching except clause
catch ==
    /\ mw_pc = "except"
    /\ LET handled == handle_exceptions(mw_result.exc)
       IN  /\ mw_response' = handled.response
           /\ mw_log' = Append(mw_log, handled.logged)
    /\ mw_pc' = "respond"
    /\ UNCHANGED <<outside_mw, mw_request, mw_result, mw_calls, mw_tasks, mw_finished, tracked>>

\* ExceptionHandlerMiddleware.dispatch: return response or await call_next(request)
respond ==
    /\ mw_pc = "respond"
    /\ mw_pc' = IF mw_response # None THEN "done" ELSE "tracker"
    /\ UNCHANGED <<outside_mw, mw_request, mw_result, mw_response, mw_calls, mw_tasks,
                   mw_finished, mw_log, tracked>>

\* the exception that leaves track_request_address, or "none"
TrackFailure(req, store_ok) ==
    IF should_skip_logging(req) THEN "none"
    ELSE IF ~req.client THEN "AttributeError"
    ELSE IF req.method \in {"POST", "PUT", "PATCH"} /\ req.body = NotJson THEN "JSONDecodeError"
    ELSE IF ~store_ok THEN "StoreError"
    ELSE "none"

\* the task track_request_address(request) runs; create_one_time_series
\* succeeds or raises
track_request_address(store_ok) ==
    /\ Task("track_request_address") \in mw_tasks
    /\ mw_tasks' = mw_tasks \ {Task("track_request_address")}
    /\ LET failure == TrackFailure(mw_request, store_ok)
           body == IF mw_request.method \in {"POST", "PUT", "PATCH"} THEN mw_request.body
                   ELSE Dict(<<>>)
       IN  /\ mw_finished' = mw_finished \cup {Finished("track_request_address", failure)}
           /\ tracked' =
                  IF should_skip_logging(mw_request) \/ failure # "none" THEN tracked
                  ELSE Append(tracked, [meta_data |-> [user_id |-> "", ip |-> "peer",
                                                       method |-> mw_request.method,
                                                       path |-> mw_request.path],
                                        body |-> mask_sensitive_data(body)])
    /\ UNCHANGED <<outside_mw, mw_pc, mw_request, mw_result, mw_response, mw_calls, mw_log>>

\* the task log_api_requests(request, response) runs
log_api_requests ==
    /\ Task("log_api_requests") \in mw_tasks
    /\ mw_tasks' = mw_tasks \ {Task("log_api_requests")}
    /\ LET failure == IF should_skip_logging(mw_request) \/ mw_request.client
                      THEN "none" ELSE "AttributeError"
       IN  /\ mw_finished' = mw_finished \cup {Finished("log_api_requests", failure)}
           /\ mw_log' =
                  IF should_skip_logging(mw_request) \/ failure # "none" THEN mw_log
                  ELSE Append(mw_log, [level |-> "debug", message |-> "Request received",
                                       status |-> mw_result.value.status_code])
    /\ UNCHANGED <<outside_mw, mw_pc, mw_request, mw_result, mw_response, mw_calls, tracked>>

\* the task update_last_active(user_id) runs; core_service.update_one
\* succeeds or raises
touch_last_active(store_ok) ==
    /\ Task("update_last_active") \in mw_tasks
    /\ mw_tasks' = mw_tasks \ {Task("update_last_active")}
    /\ mw_finished' = mw_finished
           \cup {Finished("update_last_active", IF store_ok THEN "none" ELSE "StoreError")}
    /\ UNCHANGED <<outside_mw, mw_pc, mw_request, mw_result, mw_response, mw_calls, mw_log,
                   tracked>>

MwInit == GateAtRest /\ api_permissions = {} /\ app_roles_permissions = {} /\ FnAtRest /\ MwAtRest /\ CacheAtRest

MwNext ==
    \/ \E req \in MwRequests : receive(req)
    \/ create_track_task
    \/ \E chain_outcome \in ChainOutcomes, gate_admits \in BOOLEAN :
          handler(chain_outcome, gate_admits)
    \/ create_log_task
    \/ add_process_time
    \/ catch
    \/ respond
    \/ \E store_ok \in BOOLEAN : track_request_address(store_ok)
    \/ log_api_requests
    \/ \E store_ok \in BOOLEAN : touch_last_active(store_ok)

MwSpec == MwInit /\ [][MwNext]_vars

----------------------------------------------------------------------------
(* C14: failures of the background tasks *)

\* the request is answered: ExceptionHandlerMiddleware.dispatch returned
Answered == mw_pc = "done"

\* the exception reached handle_exceptions
ChainRaised == mw_result # Running /\ mw_result.kind = "raise"

\* the handler chain returned a response to handle_exceptions
ChainReturned == mw_result # Running /\ mw_result.kind = "return"

\* C14: a failure inside a background task (request tracking, post-response
\* logging, last_active touch) is caught inside the task, so that no task ends
\* with an exception, and the answer to the request has the status code and
\* body the handler chain gave it.
C14_TaskFailuresCaught ==
    /\ \A t \in mw_finished : t.exception = "none"
    /\ Answered /\ ChainReturned =>
          /\ mw_response.status_code = mw_result.value.status_code
          /\ mw_response.content = mw_result.value.content

----------------------------------------------------------------------------
(* C16: the except clauses in priority order *)

\* the response is built from a caught exception
BuiltFromException == mw_pc \in {"respond", "done"} /\ ChainRaised

\* C16: every exception of the handler chain becomes a response by the first
\* matching kind: validation error 422, value error 422, expired signature 401
\* with the localized token message, other token error 401, HTTP exception its
\* own status, detail and headers, anything else 500 with the localized generic
\* message; the middleware always answers with a response.
C16_FirstMatchingKind ==
    /\ mw_pc \in {"respond", "done"} => mw_response # None
    /\ BuiltFromException =>
          LET error == mw_result.exc
              message == mw_response.content.errorData.message
          IN  CASE error.kind = "RequestValidationError" ->
                       mw_response.status_code = 422
                [] error.kind \in {"ValueError", "JSONDecodeError"} ->
                       mw_response.status_code = 422 /\ message.text = <<error.text>>
                [] error.kind = "ExpiredSignatureError" ->
                       mw_response.status_code = 401
                       /\ message.text = <<EXCEPTION_TOKEN_INVALID>>
                [] error.kind = "JWTError" ->
                       mw_response.status_code = 401 /\ message.text = <<error.text>>
                [] error.kind = "HTTPException" ->
                       /\ mw_response.status_code = error.status_code
                       /\ message.text = <<error.detail>>
                       /\ mw_response.headers =
                              (IF "headers" \in DOMAIN error THEN error.headers ELSE <<>>)
                [] OTHER ->
                       mw_response.status_code = 500
                       /\ message.text = <<EXCEPTION_GENERIC_ERROR>>

C16_Witness ==
    /\ Answered
    /\ ChainRaised
    /\ mw_result.exc.kind = "ExpiredSignatureError"
    /\ mw_response.status_code = 401
    /\ mw_response.content.errorData.message.text = <<EXCEPTION_TOKEN_INVALID>>

----------------------------------------------------------------------------
(* C17: the error envelope *)

\* C17: every response built from a caught exception has status FAIL and an
\* errorCode equal to its HTTP status code, and carries errorData.detail
\* exactly when the exception is a validation error with a non-empty error list.
C17_UniformEnvelope ==
    BuiltFromException =>
        LET error == mw_result.exc
            content == mw_response.content
        IN  /\ content.status = "FAIL"
            /\ content.errorData.errorCode = mw_response.status_code
            /\ "message" \in DOMAIN content.errorData
            /\ "detail" \in DOMAIN content.errorData
                   <=> (error.kind = "RequestValidationError" /\ error.errors # <<>>)
            /\ "detail" \in DOMAIN content.errorData => content.errorData.detail = error.errors

C17_Witness ==
    /\ Answered
    /\ ChainRaised
    /\ mw_result.exc.kind = "RequestValidationError"
    /\ mw_result.exc.errors = <<>>
    /\ "detail" \notin DOMAIN mw_response.content.errorData

----------------------------------------------------------------------------
(* C18: logging and the correlation hash *)

\* the exception was logged with the message the client sees
LoggedWithMessage ==
    \E i \in DOMAIN mw_log :
        /\ mw_log[i].level = "exception"
        /\ mw_log[i].message = mw_response.content.errorData.message

\* the message the client sees ends with hex(hash(error))
TaggedWithHash ==
    mw_response.content.errorData.message.tag = <<mw_result.exc.hex_code>>

\* C18 as stated: in every branch, the HTTPException branch included, the
\* exception is logged and the message is tagged with the hash of the exception.
C18_EveryBranchTagged ==
    BuiltFromException =>
        /\ LoggedWithMessage
        /\ mw_response.content.errorData.message.tag # <<>>

\* C18 as the code has it: in every branch the exception is logged; the message
\* is tagged with the hash of the exception in every branch but the one for
\* HTTPException, where the message is the detail of the exception and no more.
C18_TaggedButHTTPException ==
    BuiltFromException =>
        /\ LoggedWithMessage
        /\ IF mw_result.exc.kind = "HTTPException"
           THEN mw_response.content.errorData.message = Untagged(<<mw_result.exc.detail>>)
           ELSE TaggedWithHash

C18_Witness ==
    /\ Answered
    /\ ChainRaised
    /\ mw_result.exc.kind = "HTTPException"
    /\ LoggedWithMessage
    /\ mw_response.content.errorData.message.tag = <<>>

----------------------------------------------------------------------------
(* C19: the timing header *)

HasProcessTime(response) == "X-Process-Time" \in DOMAIN response.headers

\* C19: the answer carries X-Process-Time if and only if the handler chain
\* returned a response without raising.
C19_ProcessTimeIffReturned ==
    Answered => (HasProcessTime(mw_response) <=> ChainReturned)

C19_Witness ==
    /\ Answered
    /\ ChainRaised
    /\ mw_result.exc.kind = "HTTPException"
    /\ "headers" \in DOMAIN mw_result.exc
    /\ mw_response.headers # <<>>
    /\ ~HasProcessTime(mw_response)

----------------------------------------------------------------------------
(* async_cache and CacheSpec *)

\* what the n-th call of async_fn for a key returns: a new object each time
Computed(key, n) == [key |-> key, n |-> n]

ComputationError == Error("RuntimeError", "computation failed", "0x7")

\* asyncio.Lock.release(): the lock is free; the first waiter is woken and
\* stays in the queue until it runs
Released(l) == [l EXCEPT !.locked = FALSE]

\* a lock that every caller acquires at once
CanAcquireAtOnce_always(l) == TRUE

\* asyncio.Lock.acquire() returns at once only for a free lock nobody waits for
CanAcquireAtOnce(l) == ~l.locked /\ l.waiters = <<>>

\* inner from the lock on, entered without the lock held by another: the
\* second test of the cache, then either the cached value or the await of
\* async_fn
UnderLock(c, key, waiters) ==
    IF key \in DOMAIN cache
    THEN /\ callers' = [callers EXCEPT ![c] = [pc |-> "done", key |-> key,
                                                 result |-> Return(cache[key])]]
         /\ lock' = [locked |-> FALSE, waiters |-> waiters]
         /\ UNCHANGED started
    ELSE /\ callers' = [callers EXCEPT ![c] = [pc |-> "computing", key |-> key,
                                                 result |-> Running]]
         /\ lock' = [locked |-> TRUE, waiters |-> waiters]
         /\ started' = [started EXCEPT ![key] = @ + 1]

\* inner without its first test of the cache: every call goes to the lock
call_without_first_test(c, key) ==
    /\ callers[c].pc = "idle"
    /\ IF CanAcquireAtOnce(lock)
       THEN UnderLock(c, key, lock.waiters)
       ELSE /\ callers' = [callers EXCEPT ![c] = [pc |-> "waiting", key |-> key,
                                                    result |-> Running]]
            /\ lock' = [lock EXCEPT !.waiters = Append(@, c)]
            /\ UNCHANGED started
    /\ UNCHANGED <<outside_cache, cache, raised>>

\* inner(*args, **kwargs) up to its first suspension: the first test of the
\* cache, then the lock
call(c, key) ==
    /\ callers[c].pc = "idle"
    /\ IF key \in DOMAIN cache
       THEN /\ callers' = [callers EXCEPT ![c] = [pc |-> "done", key |-> key,
                                                    result |-> Return(cache[key])]]
            /\ UNCHANGED <<lock, started>>
       ELSE IF CanAcquireAtOnce(lock)
       THEN UnderLock(c, key, lock.waiters)
       ELSE /\ callers' = [callers EXCEPT ![c] = [pc |-> "waiting", key |-> key,
                                                    result |-> Running]]
            /\ lock' = [lock EXCEPT !.waiters = Append(@, c)]
            /\ UNCHANGED started
    /\ UNCHANGED <<outside_cache, cache, raised>>

\* a waiter of the lock runs: the lock is free and it is the first in the queue
wake(c) ==
    /\ callers[c].pc = "waiting"
    /\ ~lock.locked
    /\ lock.waiters # <<>>
    /\ Head(lock.waiters) = c
    /\ UnderLock(c, callers[c].key, Tail(lock.waiters))
    /\ UNCHANGED <<outside_cache, cache, raised>>

\* async_fn returns: cache[cache_key] = value, the lock is released, inner
\* returns cache[cache_key]
finish(c) ==
    /\ callers[c].pc = "computing"
    /\ LET key == callers[c].key
           value == Computed(key, started[key])
       IN  /\ cache' = (key :> value) @@ cache
           /\ callers' = [callers EXCEPT ![c].pc = "done", ![c].result = Return(value)]
    /\ lock' = Released(lock)
    /\ UNCHANGED <<outside_cache, started, raised>>

\* async_fn raises and the lock stays held
fail_lock_kept(c) ==
    /\ callers[c].pc = "computing"
    /\ callers' = [callers EXCEPT ![c].pc = "done", ![c].result = Raise(ComputationError)]
    /\ raised' = [raised EXCEPT ![callers[c].key] = @ + 1]
    /\ UNCHANGED <<outside_cache, cache, started, lock>>

\* async_fn raises: the lock is released, the exception leaves inner
fail(c) ==
    /\ callers[c].pc = "computing"
    /\ callers' = [callers EXCEPT ![c].pc = "done", ![c].result = Raise(ComputationError)]
    /\ raised' = [raised EXCEPT ![callers[c].key] = @ + 1]
    /\ lock' = Released(lock)
    /\ UNCHANGED <<outside_cache, cache, started>>

CacheInit ==
    /\ GateAtRest /\ api_permissions = {} /\ app_roles_permissions = {}
    /\ FnAtRest /\ MwAtRest /\ CacheAtRest

CacheNext ==
    \/ \E c \in Callers, key \in Keys : call(c, key)
    \/ \E c \in Callers : wake(c)
    \/ \E c \in Callers : finish(c)
    \/ \E c \in Callers : fail(c)

CacheSpec == CacheInit /\ [][CacheNext]_vars

----------------------------------------------------------------------------
(* C15: one computation per key *)

\* the calls of async_fn for key that are in flight
InFlight(key) == {c \in Callers : callers[c].pc = "computing" /\ callers[c].key = key}

\* the calls for key that have returned
ReturnedFor(key) ==
    {c \in Callers : callers[c].key = key /\ callers[c].result.kind = "return"}

\* C15 as stated: concurrent calls with the same arguments trigger the wrapped
\* computation exactly once, all callers receive the same result, and no two
\* computations for one key are ever in flight.
C15_ExactlyOnce ==
    \A key \in Keys :
        /\ started[key] <= 1
        /\ \A c, d \in ReturnedFor(key) : callers[c].result = callers[d].result
        /\ Cardinality(InFlight(key)) <= 1

\* C15 as the code has it: as long as the wrapped computation has not raised
\* for a key, concurrent calls with that key trigger it exactly once; all
\* callers that get a result get the same one, and no two computations for one
\* key are ever in flight.
C15_ExactlyOnceUnlessRaised ==
    \A key \in Keys :
        /\ raised[key] = 0 => started[key] <= 1
        /\ ReturnedFor(key) # {} => started[key] = raised[key] + 1
        /\ \A c, d \in ReturnedFor(key) : callers[c].result = callers[d].result
        /\ Cardinality(InFlight(key)) <= 1

C15_Witness ==
    \E key \in Keys :
        /\ \A c \in Callers : callers[c].key = key
        /\ Cardinality(ReturnedFor(key)) = MaxCallers - 1
        /\ \E c \in Callers : callers[c].pc = "waiting" /\ lock.waiters = <<c>>
        /\ started[key] = 1
        /\ raised[key] = 0

----------------------------------------------------------------------------
(* C20: expiry of a token *)

\* a token was created and verified
TokenVerified == fn.op = "verify_jwt_token"

\* the parts of the verify_jwt_token call
IssuedAt == fn.args[1]

TimeToLive == fn.args[2]

VerifiedAt == fn.args[3]

Presented == fn.args[4]

\* C20 as stated: the token carries exp = iat + d; decoding it before t + d
\* with the secret succeeds; decoding any token past its exp fails with
\* ExpiredSignatureError, whatever its signature: never a success, never a
\* JWTError of another kind.
C20_ExpiredWhateverSignature ==
    TokenVerified =>
        LET claims == Presented.claims
        IN  /\ claims["exp"] * TicksPerSecond = claims["iat"] * TicksPerSecond + TimeToLive
            /\ (Presented.key = JWT_SECRET /\ VerifiedAt < IssuedAt + TimeToLive)
                   => ret.result = Return(claims)
            /\ VerifiedAt > claims["exp"] * TicksPerSecond
                   => ret.result = Raise(ExpiredSignatureError)

\* C20 as the code has it: iat and exp are whole seconds, so exp = iat + d for
\* a time-to-live d of whole seconds (and exp is the whole seconds of t + d in
\* general); decoding with the secret before t + d succeeds; a token signed
\* with the secret fails with ExpiredSignatureError once the whole seconds of
\* the clock exceed exp, and succeeds until then; a token whose signature does
\* not verify fails with JWTError, expired or not.
C20_ExpiredIfSignedAndSecondPassed ==
    TokenVerified =>
        LET claims == Presented.claims
        IN  /\ claims["iat"] = timegm(IssuedAt)
            /\ claims["exp"] = timegm(IssuedAt + TimeToLive)
            /\ TimeToLive % TicksPerSecond = 0
                   => claims["exp"] = claims["iat"] + TimeToLive \div TicksPerSecond
            /\ (Presented.key = JWT_SECRET /\ VerifiedAt < IssuedAt + TimeToLive)
                   => ret.result = Return(claims)
            /\ Presented.key = JWT_SECRET
                   => (ret.result = Raise(ExpiredSignatureError)
                          <=> timegm(VerifiedAt) > claims["exp"])
            /\ Presented.key = JWT_SECRET
                   => ret.result \in {Raise(ExpiredSignatureError), Return(claims)}
            /\ Presented.key # JWT_SECRET => ret.result = Raise(JWTError)

\* a token signed with the secret is refused as expired a second after t + d
C20_Witness ==
    /\ TokenVerified
    /\ Presented.key = JWT_SECRET
    /\ TimeToLive > 0
    /\ VerifiedAt >= IssuedAt + TimeToLive + TicksPerSecond
    /\ ret.result = Raise(ExpiredSignatureError)

----------------------------------------------------------------------------
(* C21: round trip of a token *)

\* a token was created and verified at once
RoundTripped == fn.op = "create_and_verify"

\* the parts of the call
GivenPayload == fn.args[1]

GivenDelta == fn.args[2]

GivenType == fn.args[3]

StripReserved == fn.args[4]

CreatedAt == fn.args[5]

PayloadAfter == fn.args[6]

\* the mapping d without the keys of the set keys
Without(d, keys) == [k \in (DOMAIN d) \ keys |-> d[k]]

\* decoding gave the payload plus token_type, modulo iat and exp, with
\* token_type, iat and exp those create_jwt_token sets
DecodedIsPayloadPlusType ==
    /\ ret.result.kind = "return"
    /\ Without(ret.result.value, {"iat", "exp"})
           = Without(Merge(GivenPayload, [token_type |-> GivenType]), {"iat", "exp"})
    /\ ret.result.value["token_type"] = GivenType
    /\ ret.result.value["iat"] = timegm(CreatedAt)
    /\ ret.result.value["exp"] = timegm(CreatedAt + GivenDelta)

\* jwt.decode refuses a claim of the payload
RefusedClaim(payload, tick) ==
    \/ "aud" \in DOMAIN payload
    \/ "nbf" \in DOMAIN payload /\ payload["nbf"] > timegm(tick)

\* C21 as stated: for every claims mapping and token type, decoding a freshly
\* encoded token returns the claims plus token_type, modulo iat and exp, with
\* token_type, iat and exp set by encode whatever the mapping carries; encode
\* leaves the mapping it was passed as it was.
C21_RoundTripEveryMapping ==
    RoundTripped =>
        /\ ~StripReserved => DecodedIsPayloadPlusType
        /\ PayloadAfter = GivenPayload

\* C21 as the code has it: the round trip holds for every claims mapping that
\* carries no aud claim and no nbf later than the clock; a mapping that
\* carries one encodes to a token that decode refuses with JWTClaimsError.
C21_RoundTripUnlessClaimRefused ==
    RoundTripped =>
        /\ ~StripReserved =>
              IF RefusedClaim(GivenPayload, CreatedAt)
              THEN ret.result = Raise(JWTClaimsError)
              ELSE DecodedIsPayloadPlusType
        /\ PayloadAfter = GivenPayload

C21_Witness ==
    /\ RoundTripped
    /\ ~StripReserved
    /\ {"user_id", "token_type", "iat", "exp"} \subseteq DOMAIN GivenPayload
    /\ GivenPayload["token_type"] # GivenType
    /\ GivenPayload["exp"] # timegm(CreatedAt + GivenDelta)
    /\ DecodedIsPayloadPlusType

----------------------------------------------------------------------------
(* C22: the reserved claims *)

\* C22: verify_jwt_token with remove_reserved_claims set returns the verified
\* claims without the keys iss, sub, aud, exp, nbf, iat, jti and with every
\* other key and value as decoded; without the flag it removes no key.
C22_StripsExactlyReserved ==
    (RoundTripped /\ ret.result.kind = "return") =>
        LET claims == Merge(GivenPayload, [token_type |-> GivenType, iat |-> timegm(CreatedAt),
                                           exp |-> timegm(CreatedAt + GivenDelta)])
        IN  ret.result.value
                = IF StripReserved
                  THEN Without(claims, {"iss", "sub", "aud", "exp", "nbf", "iat", "jti"})
                  ELSE claims

C22_Witness ==
    /\ RoundTripped
    /\ StripReserved
    /\ {"user_id", "sub", "nbf"} \subseteq DOMAIN GivenPayload
    /\ ret.result.kind = "return"
    /\ DOMAIN ret.result.value = {"user_id", "token_type"}
    /\ ret.result.value["token_type"] = GivenType

----------------------------------------------------------------------------
(* C23: masking *)

Masked == fn.op = "mask_sensitive_data"

\* a string of asterisks as long as the string value
Asterisks(value) == Str([i \in 1 .. Len(value.str) |-> "*"])

\* out is the dict d with the strings under the five sensitive keys replaced
\* by asterisks of their length, and nothing else altered
MaskedDict(d, out) ==
    /\ DOMAIN out = DOMAIN d
    /\ \A key \in DOMAIN d :
          out[key] =
              IF key \in {"password", "new_password", "current_password", "access_token",
                          "refresh_token"}
                 /\ IsStr(d[key])
              THEN Asterisks(d[key])
              ELSE d[key]

\* C23: for a body that is a dict, or a list of dicts, every string under a key
\* password, new_password, current_password, access_token or refresh_token is
\* replaced by asterisks of the same length and nothing else is altered;
\* masking the masked body changes nothing.
C23_MasksSensitiveStrings ==
    Masked =>
        LET body == fn.args[1]
            out == ret.result.value
        IN  /\ IsDict(body) => IsDict(out) /\ MaskedDict(body.dict, out.dict)
            /\ IsList(body) =>
                  /\ IsList(out)
                  /\ Len(out.list) = Len(body.list)
                  /\ \A i \in DOMAIN body.list :
                        IF IsDict(body.list[i])
                        THEN IsDict(out.list[i])
                             /\ MaskedDict(body.list[i].dict, out.list[i].dict)
                        ELSE out.list[i] = body.list[i]
            /\ mask_sensitive_data(out) = out

C23_Witness ==
    /\ Masked
    /\ IsList(fn.args[1])
    /\ Len(fn.args[1].list) = MaxItems
    /\ \A i \in DOMAIN fn.args[1].list :
          /\ IsDict(fn.args[1].list[i])
          /\ "name" \in DOMAIN fn.args[1].list[i].dict
          /\ ret.result.value.list[i].dict = [name |-> Secret, new_password |-> Str(<<"*">>)]

----------------------------------------------------------------------------
(* C24: the order of the tasks, the handler and the response *)

\* the task of the coroutine was created: it waits to run, or has ended
Launched(coro) == Task(coro) \in mw_tasks \/ \E t \in mw_finished : t.coro = coro

\* the response a chain outcome leads to
ResponseTo(result) ==
    IF result.kind = "return" THEN AddProcessTime(result.value)
    ELSE handle_exceptions(result.exc).response

\* C24: the tracking task is launched before the handler is invoked, the
\* logging task only after the handler returned a response, and the response
\* of the middleware is the one the handler's outcome leads to, whether the
\* tasks have run or not.
C24_TasksLaunchedNotAwaited ==
    /\ mw_calls >= 1 => Launched("track_request_address")
    /\ Launched("log_api_requests") => ChainReturned
    /\ Answered => mw_response = ResponseTo(mw_result)

\* the response is returned while neither task has run
C24_Witness ==
    /\ Answered
    /\ mw_request.path # <<"/">>
    /\ mw_tasks = {Task("track_request_address"), Task("log_api_requests")}
    /\ tracked = <<>>

\* the other order: the tracking record is persisted before the handler is
\* invoked
TrackedBeforeHandler == mw_pc = "handler" /\ mw_calls = 0 /\ Len(tracked) = 1

----------------------------------------------------------------------------
(* C25: the path '/' *)

\* the lines log_api_requests wrote
RequestLines == {i \in DOMAIN mw_log : mw_log[i].level = "debug"}

\* C25: for a request whose path is exactly '/', no tracking record is
\* persisted and log_api_requests writes no line; for any other path each
\* task persists or writes at most once.
C25_RootPathSkipped ==
    IF mw_request.path = <<"/">>
    THEN tracked = <<>> /\ RequestLines = {}
    ELSE Len(tracked) <= 1 /\ Cardinality(RequestLines) <= 1

C25_Witness ==
    /\ mw_request.path = <<"/">>
    /\ mw_request.method = "POST"
    /\ Answered
    /\ ChainReturned
    /\ mw_tasks = {}
    /\ \A t \in mw_finished : t.exception = "none"
    /\ tracked = <<>>
    /\ RequestLines = {}

----------------------------------------------------------------------------
(* C26: sensitive fields in the tracking record *)

RECURSIVE SensitiveValues(_)

\* the values under a sensitive key anywhere in a body
SensitiveValues(value) ==
    IF IsDict(value)
    THEN UNION {(IF key \in SensitiveFields THEN {value.dict[key]} ELSE {})
                    \cup SensitiveValues(value.dict[key]) : key \in DOMAIN value.dict}
    ELSE IF IsList(value)
    THEN UNION {SensitiveValues(value.list[i]) : i \in DOMAIN value.list}
    ELSE {}

\* C26: the record persisted by the tracking task holds no original value of a
\* sensitive field of the request body, at any depth and for any type of value.
C26_NoSensitiveValuePersisted ==
    \A i \in DOMAIN tracked :
        SensitiveValues(tracked[i].body) \cap SensitiveValues(mw_request.body) = {}

----------------------------------------------------------------------------
(* C27: the collection update_last_active writes *)

\* the records of after are those of before, with last_active set on the
\* record of user_id
TouchedIn(before, after, user_id) ==
    /\ after = {IF u["_id"] = user_id THEN [u EXCEPT !["last_active"] = get_current_timestamp(1)]
                ELSE u : u \in before}
    /\ after # before

\* C27: the touch updates the identity record the caller was resolved from,
\* the record of admins for a SUPER_ADMIN and the record of users for any other
\* role, and writes to no other collection.
C27_TouchesResolvedCollection ==
    fn.op = "update_last_active" =>
        LET users_before == fn.args[1]
            admins_before == fn.args[2]
            after == ret.result.value
        IN  IF fn.args[3] = SUPER_ADMIN
            THEN TouchedIn(admins_before, after.admins, fn.args[4]) /\ after.users = users_before
            ELSE TouchedIn(users_before, after.users, fn.args[4]) /\ after.admins = admins_before

----------------------------------------------------------------------------
(* C28: a computation that raises *)

\* the computation caller c awaited raised in this step
RaisedIn(c) == callers[c].pc = "computing" /\ callers'[c].result.kind = "raise"

\* a waiter got the lock in this step
WokenIn(c) == callers[c].pc = "waiting" /\ callers'[c].pc # "waiting"

C28_Step ==
    /\ \A c \in Callers :
          RaisedIn(c) =>
              /\ cache' = cache
              /\ callers[c].key \notin DOMAIN cache'
              /\ ~lock'.locked
              /\ \A d \in Callers \ {c} : callers'[d] = callers[d]
    /\ \A c \in Callers :
          WokenIn(c) =>
              LET key == callers[c].key
              IN  IF key \in DOMAIN cache
                  THEN /\ callers'[c].result = Return(cache[key])
                       /\ started' = started
                  ELSE /\ callers'[c].pc = "computing"
                       /\ started' = [started EXCEPT ![key] = @ + 1]
    /\ \A key \in DOMAIN cache :
          /\ key \in DOMAIN cache'
          /\ cache'[key] = cache[key]
          /\ started'[key] = started[key]

\* C28: when the wrapped computation raises, nothing is stored for the key, the
\* lock is released and only the caller that ran it gets the exception; a
\* caller that waited for the same key and gets the lock while the key is not
\* cached runs the computation again; once a computation succeeded for a key,
\* the cached value never changes and the function is not called for that key
\* again.
C28_RaiseStoresNothingSuccessIsFinal == [][C28_Step]_vars

\* two computations raised, the third caller of the key computed again and
\* got its value
C28_Witness ==
    \E key \in Keys :
        /\ \A c \in Callers : callers[c].key = key /\ callers[c].pc = "done"
        /\ raised[key] = MaxCallers - 1
        /\ started[key] = MaxCallers
        /\ key \in DOMAIN cache
        /\ \E c \in Callers : callers[c].result = Return(cache[key])

----------------------------------------------------------------------------
(* C29: one lock for all keys *)

Computing == {c \in Callers : callers[c].pc = "computing"}

Waiting == {c \in Callers : callers[c].pc = "waiting"}

\* some caller can take a step whenever a caller waits: the computation that
\* holds the lock can end, or the first waiter can take the free lock
C29_NoDeadlock ==
    /\ lock.locked <=> Computing # {}
    /\ Waiting = {lock.waiters[i] : i \in DOMAIN lock.waiters}
    /\ Waiting # {} => Computing # {} \/ callers[Head(lock.waiters)].pc = "waiting"

\* a call for a cached key returns the cached value in the same step and
\* leaves the lock as it is
C29_Step ==
    \A c \in Callers :
        (callers[c].pc = "idle" /\ callers'[c].pc # "idle" /\ callers'[c].key \in DOMAIN cache)
            => /\ callers'[c].pc = "done"
               /\ callers'[c].result = Return(cache[callers'[c].key])
               /\ lock' = lock

\* C29: at most one computation is in flight at any time across all keys; a
\* call for a cached key returns its value without acquiring the lock, also
\* while a computation for another key holds it; no interleaving deadlocks.
C29_OneInFlightCachedBypassesLock ==
    [](Cardinality(Computing) <= 1 /\ C29_NoDeadlock) /\ [][C29_Step]_vars

\* a computation for one key holds the lock, another waits for it, and a
\* caller of the other key has its cached value
C29_Witness ==
    \E key, other \in Keys :
        /\ key # other
        /\ \E c \in Computing : callers[c].key = key
        /\ other \in DOMAIN cache
        /\ started[other] = 1
        /\ Cardinality({c \in Callers : callers[c].key = other /\ callers[c].pc = "done"}) = 2
        /\ lock.locked

----------------------------------------------------------------------------
(* C30: one invocation of the handler chain *)

\* C30: ExceptionHandlerMiddleware invokes the handler chain exactly once for
\* a request, whether the chain returns or raises: handle_exceptions always
\* hands dispatch a response, so the second call_next of dispatch is not
\* reached.
C30_ChainInvokedOnce ==
    /\ mw_calls <= 1
    /\ mw_pc \in {"respond", "done"} => mw_calls = 1 /\ mw_response # None
    /\ Answered => mw_response = ResponseTo(mw_result)

C30_Witness ==
    /\ Answered
    /\ ChainRaised
    /\ mw_result.exc.kind = "KeyError"
    /\ mw_calls = 1
    /\ mw_response.status_code = HTTP_500_INTERNAL_SERVER_ERROR

====
